---------------------------- MODULE Spec2Model ----------------------------
(***************************************************************************)
(* AutoSys Pro (src/modulo_15/autosys-pro/src): the adaptive orchestration *)
(* engine.  The module models                                              *)
(*   - GerenciadorCooldown      (alertas/priorizacao.py)                   *)
(*   - GerenciadorAlertas       (alertas/canais.py)                        *)
(*   - GerenciadorBackup        (backup/gerenciador.py)                    *)
(*   - OtimizadorBackup         (backup/inteligencia.py)                   *)
(*   - AutoSysOrchestrator      (main.py)                                  *)
(* Each component has its own specification over the shared variables; a   *)
(* specification leaves the variables of the other components unchanged.   *)
(*                                                                         *)
(* Time is datetime.now() in whole seconds.  Names that the source files   *)
(* use without importing them (os, socket, defaultdict in canais.py,       *)
(* config in priorizacao.py, BackupError in main.py) are read as bound to  *)
(* the objects of those names; the model is of the logic of the functions. *)
(***************************************************************************)
EXTENDS Integers, Sequences, FiniteSets, TLC

VARIABLES
    now,                \* datetime.now(), seconds
    \* ---- GerenciadorCooldown (priorizacao.py)
    cooldowns,          \* self.cooldowns: tipo -> {timestamp, sucesso, severidade}
    adaptive_cooldowns, \* self.adaptive_cooldowns: tipo -> seconds (a rational)
    envios,             \* log of the registrar_envio calls, per tipo
    decisao,            \* what the last should_alert call returned
    \* ---- GerenciadorAlertas (canais.py)
    canal_ativo,        \* canal -> esta_ativo(), fixed by the configuration
    cooldown_cache,     \* self.cooldown_cache: "tipo_severidade" -> last dispatch
    alert_count,        \* self.alert_count: tipo -> dispatches
    historico_alertas,  \* self.historico_alertas: tipo, severidade, resultados,
                        \* timestamp_envio of each entry
    alerts_db,          \* table alerts: id -> row
    chamada,            \* per caller: the enviar call in flight
    ret,                \* the last return of enviar: to which caller, what status
    contatos,           \* number of canal.enviar calls made
    \* ---- GerenciadorBackup (gerenciador.py), OtimizadorBackup (inteligencia.py)
    backups,            \* table backups: id -> row
    tabela_backups,     \* whether table backups exists in the database
    artefatos,          \* the paths that exist under BACKUP_DIR
    espaco_livre,       \* psutil.disk_usage(BACKUP_DIR).free, MB
    tentativa,          \* per caller: the executar_backup call and its locals
    backups_iniciados,  \* number of executar_backup calls made
    ret_backup,         \* how the last executar_backup call ended, and its locals
    ENABLE_ML,          \* config.ENABLE_ML
    is_trained,         \* OtimizadorBackup.is_trained
    \* ---- AutoSysOrchestrator (main.py)
    running,            \* self.running
    status,             \* self.metrics["status"]
    failures,           \* self.metrics["failures"]
    total_backups,      \* self.metrics["total_backups"]
    tasks,              \* self.tasks: per task where it is, cancellation
                        \* requested, the sleep it is in, the iterations of its
                        \* loop it began, the alert its iteration submitted
    principal,          \* the main task and asyncio.run: start, gather,
                        \* finalizando, juntando, encerrado
    copia_thread,       \* the executor thread is running _executar_backup_sync
    sinais,             \* number of SIGINT / SIGTERM delivered
    \* ---- SistemaMonitor (sistema.py), PreditorFalhas (preditor.py), one
    \*      iteration of _monitoring_loop (main.py)
    metrics,            \* the snapshot of coletar_tudo: the four values read
    modelo_proba,       \* self.modelo.predict_proba(...)[0, 1] for the snapshot,
                        \* in thousandths
    preditor_is_trained, \* PreditorFalhas.is_trained
    PREDICTION_THRESHOLD, \* config.PREDICTION_THRESHOLD, in thousandths
    alertas,            \* what the last verificar_alertas call returned
    predicao,           \* what the last prever_falha call returned
    tick,               \* the last iteration of _monitoring_loop: how it ended,
                        \* the alerts it submitted to enviar, its steps
    total_alerts,       \* self.metrics["total_alerts"]
    current,            \* self.metrics["current_cpu" / "current_memory" /
                        \* "current_disk"]
    metrics_db,         \* table metrics: the rows, oldest first
    escrita,            \* the last INSERT a loop made that the store accepted
                        \* or refused: its number, the loop, the table
    \* ---- PriorizadorAlertas (priorizacao.py)
    prioridade,         \* the last calcular_prioridade call: arguments, result
    \* ---- the models in memory (preditor.py, inteligencia.py)
    treino,             \* the model and scaler objects of PreditorFalhas and of
                        \* OtimizadorBackup, and how the last treinar call ended
    \* ---- the event loop thread (asyncio.gather in main.py)
    laco,               \* which coroutine the thread runs, the phase of the
                        \* executar_backup call in progress, and whether the
                        \* sleep of _monitoring_loop has expired
    \* ---- the calls an operator makes (web/app.py 374-394, gerenciador.py 404)
    backup_feedback,    \* table backup_feedback: (backup_id, timestamp) -> row
    destino,            \* what restaurar_backup wrote under its destination
    ret_api             \* how the last of these calls ended

varsCooldown == <<cooldowns, adaptive_cooldowns, envios, decisao>>

varsAlertas == <<canal_ativo, cooldown_cache, alert_count, historico_alertas,
                 alerts_db, chamada, ret, contatos>>

varsBackup == <<backups, tabela_backups, artefatos, espaco_livre, tentativa,
                backups_iniciados, ret_backup, ENABLE_ML, is_trained>>

varsOrq == <<running, status, failures, total_backups, tasks, principal,
             copia_thread, sinais>>

varsMonitor == <<metrics, modelo_proba, preditor_is_trained, PREDICTION_THRESHOLD,
                 alertas, predicao, tick, total_alerts, current, metrics_db,
                 escrita>>

varsPrioridade == <<prioridade>>

varsTreino == <<treino>>

varsLaco == <<laco>>

varsApi == <<backup_feedback, destino, ret_api>>

vars == <<now, varsCooldown, varsAlertas, varsBackup, varsOrq, varsMonitor,
          varsPrioridade, varsTreino, varsLaco, varsApi>>

(***************************************************************************)
(* Bounds of the model.                                                    *)
(***************************************************************************)
MaxEnvios == 3         \* registrar_envio calls in a run
MaxTempoCooldown == 60 \* last instant of the cooldown engine's clock
MaxAlertas == 2        \* alerts dispatched in a run
MaxTempoAlertas == 300 \* last instant of the dispatcher's clock
MaxBackups == 2        \* executar_backup calls in a run
MaxFalhas == 2         \* failed iterations counted in a run
MaxSinais == 2         \* termination signals delivered in a run
MaxIteracoes == 2      \* iterations of _ml_training_loop in a run

(***************************************************************************)
(* Python dictionaries: a function whose DOMAIN is the set of keys.        *)
(***************************************************************************)
DictVazio == << >>

DictSet(d, k, v) == [x \in (DOMAIN d) \cup {k} |-> IF x = k THEN v ELSE d[x]]

(***************************************************************************)
(* Python floats that the code multiplies by 1.5 and 0.9, kept as exact    *)
(* fractions [n, d] in lowest terms.                                       *)
(***************************************************************************)
RECURSIVE Gcd(_, _)
Gcd(a, b) == IF b = 0 THEN a ELSE Gcd(b, a % b)

Frac(n, d) == LET g == Gcd(n, d) IN [n |-> n \div g, d |-> d \div g]

FracInt(i) == [n |-> i, d |-> 1]

FracMul(f, n, d) == Frac(f.n * n, f.d * d)

FracLt(f, g) == f.n * g.d < g.n * f.d

FracLeq(f, g) == f.n * g.d <= g.n * f.d

FracMax(f, g) == IF FracLt(f, g) THEN g ELSE f

\* int(x) of a non-negative float
FracTrunc(f) == f.n \div f.d

RECURSIVE Pow(_, _)
Pow(b, e) == IF e = 0 THEN 1 ELSE b * Pow(b, e - 1)

(***************************************************************************)
(* Severities.  str.lower() on the severity words the model submits.       *)
(***************************************************************************)
Lower(s) ==
    CASE s = "ALTA" -> "alta"
      [] s = "Critica" -> "critica"
      [] OTHER -> s

Tipos == {"cpu_alta", "backup_erro"}

\* the severities submitted to the cooldown engine: two known words, one in
\* upper case, one unknown word
SeveridadesCooldown == {"critica", "baixa", "ALTA", "urgente"}

(***************************************************************************)
(* GerenciadorCooldown._get_base_cooldown (priorizacao.py 233-242)         *)
(***************************************************************************)
_get_base_cooldown(severidade) ==
    LET s == Lower(severidade) IN
    CASE s = "critica" -> 60
      [] s = "alta" -> 300
      [] s = "media" -> 1800
      [] s = "baixa" -> 3600
      [] s = "info" -> 43200
      [] OTHER -> 1800

(***************************************************************************)
(* GerenciadorCooldown.should_alert (priorizacao.py 207-231): the pair     *)
(* (admit, seconds left), read from the state without changing it.         *)
(***************************************************************************)
should_alert(cds, adapt, alerta, t) ==
    LET tipo == alerta.tipo
        cooldown_base == FracInt(_get_base_cooldown(alerta.severidade))
        cooldown == IF tipo \in DOMAIN adapt THEN adapt[tipo] ELSE cooldown_base
    IN  IF tipo \in DOMAIN cds
        THEN LET tempo_passado == t - cds[tipo].timestamp IN
             IF FracLt(FracInt(tempo_passado), cooldown)
             THEN <<FALSE, FracTrunc(Frac(cooldown.n - tempo_passado * cooldown.d,
                                          cooldown.d))>>
             ELSE <<TRUE, 0>>
        ELSE <<TRUE, 0>>

(***************************************************************************)
(* GerenciadorCooldown.registrar_envio (priorizacao.py 244-269): the new   *)
(* adaptive_cooldowns.                                                     *)
(***************************************************************************)
\* a variant whose success branch forgets the floor at the base window
AdaptAposEnvio_SemPiso(adapt, alerta, sucesso) ==
    LET tipo == alerta.tipo
        base == FracInt(_get_base_cooldown(alerta.severidade))
        atual == IF tipo \in DOMAIN adapt THEN adapt[tipo] ELSE base
    IN  IF ~sucesso
        THEN DictSet(adapt, tipo, FracMul(atual, 3, 2))
        ELSE DictSet(adapt, tipo, FracMul(atual, 9, 10))

AdaptAposEnvio(adapt, alerta, sucesso) ==
    LET tipo == alerta.tipo
        base == FracInt(_get_base_cooldown(alerta.severidade))
        atual == IF tipo \in DOMAIN adapt THEN adapt[tipo] ELSE base
    IN  IF ~sucesso
        THEN DictSet(adapt, tipo, FracMul(atual, 3, 2))
        ELSE DictSet(adapt, tipo, FracMax(base, FracMul(atual, 9, 10)))

registrar_envio(alerta, sucesso) ==
    /\ Len(envios[alerta.tipo]) < MaxEnvios
    /\ cooldowns' = DictSet(cooldowns, alerta.tipo,
                            [timestamp |-> now, sucesso |-> sucesso,
                             severidade |-> alerta.severidade])
    /\ adaptive_cooldowns' = AdaptAposEnvio(adaptive_cooldowns, alerta, sucesso)
    /\ envios' = [envios EXCEPT ![alerta.tipo] =
                     Append(@, [severidade |-> alerta.severidade, sucesso |-> sucesso])]
    /\ UNCHANGED <<now, decisao, varsAlertas, varsMonitor, varsPrioridade,
                   varsTreino, varsLaco, varsApi, varsBackup, varsOrq>>

\* a caller asks whether to alert; nothing of the engine changes
ConsultaShouldAlert(alerta) ==
    /\ decisao' = [alerta |-> alerta,
                   resposta |-> should_alert(cooldowns, adaptive_cooldowns, alerta, now)]
    /\ UNCHANGED <<now, cooldowns, adaptive_cooldowns, envios, varsAlertas,
                   varsMonitor, varsPrioridade, varsTreino, varsLaco, varsApi,
                   varsBackup, varsOrq>>

PassaTempoCooldown ==
    /\ now + 30 <= MaxTempoCooldown
    /\ now' = now + 30
    /\ UNCHANGED <<varsCooldown, varsMonitor, varsPrioridade, varsTreino,
                   varsLaco, varsApi, varsAlertas, varsBackup, varsOrq>>

AlertasCooldown == [tipo : {"cpu_alta"}, severidade : SeveridadesCooldown]

\* GerenciadorCooldown.__init__ (priorizacao.py 203-205)
InitCooldownVars ==
    /\ cooldowns = DictVazio
    /\ adaptive_cooldowns = DictVazio
    /\ envios = [t \in Tipos |-> << >>]
    /\ decisao = [alerta |-> [tipo |-> "nenhum", severidade |-> "media"],
                  resposta |-> <<TRUE, 0>>]

(***************************************************************************)
(* GerenciadorAlertas (canais.py).                                         *)
(***************************************************************************)
Canais == {"email", "telegram", "slack"}

Chamadores == {"monitor", "backup"}

\* GerenciadorAlertas._get_cooldown_periodo (canais.py 140-149)
_get_cooldown_periodo(severidade) ==
    LET s == Lower(severidade) IN
    CASE s = "critica" -> 60
      [] s = "alta" -> 300
      [] s = "media" -> 1800
      [] s = "baixa" -> 3600
      [] s = "info" -> 86400
      [] OTHER -> 1800

\* the key of _em_cooldown and _atualizar_cooldown (canais.py 129, 153)
chave_cooldown(alerta) == alerta.tipo \o "_" \o alerta.severidade

\* GerenciadorAlertas._em_cooldown (canais.py 127-138)
_em_cooldown(cache, alerta, t) ==
    /\ chave_cooldown(alerta) \in DOMAIN cache
    /\ t - cache[chave_cooldown(alerta)] < _get_cooldown_periodo(alerta.severidade)

\* SeqFiltra(s, P): the list comprehension [x for x in s if P(x)]
RECURSIVE SeqFiltra(_, _)
SeqFiltra(s, ativos) ==
    IF s = << >> THEN << >>
    ELSE IF ativos[Head(s)] THEN <<Head(s)>> \o SeqFiltra(Tail(s), ativos)
         ELSE SeqFiltra(Tail(s), ativos)

\* a variant of the map that sends info alerts by email
canais_map_InfoPorEmail(severidade) ==
    LET s == Lower(severidade) IN
    CASE s = "critica" -> <<"telegram", "email", "slack">>
      [] s = "alta" -> <<"telegram", "email">>
      [] s = "media" -> <<"email">>
      [] s = "baixa" -> <<"email">>
      [] s = "info" -> <<"email">>
      [] OTHER -> <<"email">>

\* canais_map of _determinar_canais (canais.py 111-120)
canais_map(severidade) ==
    LET s == Lower(severidade) IN
    CASE s = "critica" -> <<"telegram", "email", "slack">>
      [] s = "alta" -> <<"telegram", "email">>
      [] s = "media" -> <<"email">>
      [] s = "baixa" -> <<"email">>
      [] s = "info" -> << >>
      [] OTHER -> <<"email">>

\* GerenciadorAlertas._determinar_canais (canais.py 108-125)
_determinar_canais(severidade, ativos) == SeqFiltra(canais_map(severidade), ativos)

\* hash(str(alerta)) % 10000 (canais.py 92): two alerts of one second get the
\* same value or different ones
HashVals == {0, 1}

\* GerenciadorAlertas._enriquecer_alerta (canais.py 81-106): the callers give
\* tipo and severidade; timestamp and id are filled in, the id from the second
\* and the hash h.
_enriquecer_alerta(alerta, t, h) ==
    [tipo |-> alerta.tipo, severidade |-> alerta.severidade,
     timestamp |-> t, id |-> <<t, h>>]

\* GerenciadorAlertas._atualizar_cooldown (canais.py 151-157)
CacheAposEnvio(cache, alerta, t) == DictSet(cache, chave_cooldown(alerta), t)

ContagemAposEnvio(cont, alerta) ==
    DictSet(cont, alerta.tipo,
            IF alerta.tipo \in DOMAIN cont THEN cont[alerta.tipo] + 1 ELSE 1)

\* one entry of resultados (canais.py 49-60)
Resultado(canal, desfecho) ==
    [canal |-> canal, sucesso |-> (desfecho = "ok"), erro |-> (desfecho = "excecao")]

\* how an awaited canal.enviar ends.  The three channel classes catch every
\* Exception themselves and return sucesso False (canais.py 290-293, 464-466,
\* 540-542), so with them the handler at canais.py 54-60 ("excecao") is not
\* entered.
Desfechos == {"ok", "falha"}

\* a variant of the loop that gives up on the first channel that fails
Restantes_ParaNaFalha(pendentes, desfecho) ==
    IF desfecho = "ok" THEN Tail(pendentes) ELSE << >>

\* the for loop of enviar (canais.py 44-60): after a channel, whatever its
\* outcome, the channels that follow it
Restantes(pendentes, desfecho) == Tail(pendentes)

Ocioso == [pc |-> "ocioso"]

\* a variant of lines 62-79 that starts the cooldown only of an alert that
\* was sent on some channel
Finaliza_SoComEntrega(c, alerta, resultados, db_ok) ==
    /\ historico_alertas' = Append(historico_alertas,
           [tipo |-> alerta.tipo, severidade |-> alerta.severidade,
            resultados |-> resultados, timestamp_envio |-> now])
    /\ cooldown_cache' = IF resultados = << >> THEN cooldown_cache
                         ELSE CacheAposEnvio(cooldown_cache, alerta, now)
    /\ alert_count' = ContagemAposEnvio(alert_count, alerta)
    /\ alerts_db' = IF db_ok
                    THEN DictSet(alerts_db, alerta.id,
                                 [tipo |-> alerta.tipo,
                                  severidade |-> alerta.severidade,
                                  resultados |-> resultados])
                    ELSE alerts_db
    /\ chamada' = [chamada EXCEPT ![c] = Ocioso]
    /\ ret' = [chamador |-> c, status |-> IF db_ok THEN "enviado" ELSE "excecao"]

\* enviar, lines 62-79: history, cooldown, the alerts row, the return.  The
\* row is written by _registrar_alerta (159-202), which may raise (db_ok
\* FALSE): the exception leaves enviar after history and cooldown are updated.
Finaliza(c, alerta, resultados, db_ok) ==
    /\ historico_alertas' = Append(historico_alertas,
           [tipo |-> alerta.tipo, severidade |-> alerta.severidade,
            resultados |-> resultados, timestamp_envio |-> now])
    /\ cooldown_cache' = CacheAposEnvio(cooldown_cache, alerta, now)
    /\ alert_count' = ContagemAposEnvio(alert_count, alerta)
    /\ alerts_db' = IF db_ok
                    THEN DictSet(alerts_db, alerta.id,
                                 [tipo |-> alerta.tipo,
                                  severidade |-> alerta.severidade,
                                  resultados |-> resultados])
                    ELSE alerts_db
    /\ chamada' = [chamada EXCEPT ![c] = Ocioso]
    /\ ret' = [chamador |-> c, status |-> IF db_ok THEN "enviado" ELSE "excecao"]

\* a variant of the suppressed branch that restarts the window
EnviarSuprimido_Reinicia(c, alerta) ==
    /\ ret' = [chamador |-> c, status |-> "cooldown"]
    /\ cooldown_cache' = CacheAposEnvio(cooldown_cache, alerta, now)
    /\ UNCHANGED <<alert_count, historico_alertas, alerts_db, chamada,
                   contatos>>

\* enviar, lines 35-38: the alert is in cooldown
EnviarSuprimido(c, alerta) ==
    /\ ret' = [chamador |-> c, status |-> "cooldown"]
    /\ UNCHANGED <<cooldown_cache, alert_count, historico_alertas, alerts_db,
                   chamada, contatos>>

EmVoo == Cardinality({c \in Chamadores : chamada[c].pc = "enviando"})

\* enviar, lines 29-48: from the call to the first suspension (the await of
\* the first active channel), or to the return when there is none
EnviarInicio(c, a0) ==
    /\ chamada[c].pc = "ocioso"
    /\ \E h \in HashVals, db_ok \in BOOLEAN :
        LET alerta == _enriquecer_alerta(a0, now, h) IN
        IF _em_cooldown(cooldown_cache, alerta, now)
        THEN EnviarSuprimido(c, alerta)
        ELSE /\ Len(historico_alertas) + EmVoo < MaxAlertas
             /\ LET canais == _determinar_canais(alerta.severidade, canal_ativo) IN
                IF canais = << >>
                THEN Finaliza(c, alerta, << >>, db_ok) /\ UNCHANGED contatos
                ELSE /\ chamada' = [chamada EXCEPT ![c] =
                            [pc |-> "enviando", alerta |-> alerta,
                             pendentes |-> canais, resultados |-> << >>]]
                     /\ contatos' = contatos + 1
                     /\ UNCHANGED <<cooldown_cache, alert_count,
                                    historico_alertas, alerts_db, ret>>
    /\ UNCHANGED <<now, canal_ativo, varsCooldown, varsMonitor,
                   varsPrioridade, varsTreino, varsLaco, varsApi, varsBackup, varsOrq>>

\* enviar, lines 48-79, after an awaited canal.enviar ended: its entry of
\* resultados; the next active channel is called, or the call finishes
AposCanal(c, desfecho, db_ok) ==
    LET ch == chamada[c]
        resultados == Append(ch.resultados, Resultado(Head(ch.pendentes), desfecho))
        resto == Restantes(ch.pendentes, desfecho)
    IN  IF resto = << >>
        THEN Finaliza(c, ch.alerta, resultados, db_ok) /\ UNCHANGED contatos
        ELSE /\ chamada' = [chamada EXCEPT ![c] =
                    [ch EXCEPT !.pendentes = resto, !.resultados = resultados]]
             /\ contatos' = contatos + 1
             /\ UNCHANGED <<cooldown_cache, alert_count, historico_alertas,
                            alerts_db, ret>>

\* the awaited canal.enviar of a channel class of canais.py returns
EnviarCanal(c) ==
    /\ chamada[c].pc = "enviando"
    /\ \E desfecho \in Desfechos, db_ok \in BOOLEAN : AposCanal(c, desfecho, db_ok)
    /\ UNCHANGED <<now, canal_ativo, varsCooldown, varsMonitor,
                   varsPrioridade, varsTreino, varsLaco, varsApi, varsBackup, varsOrq>>

\* the awaited canal.enviar raises (a channel object that does not catch
\* its own exceptions): the handler at canais.py 54-60
EnviarCanalLevanta(c) ==
    /\ chamada[c].pc = "enviando"
    /\ \E db_ok \in BOOLEAN : AposCanal(c, "excecao", db_ok)
    /\ UNCHANGED <<now, canal_ativo, varsCooldown, varsMonitor,
                   varsPrioridade, varsTreino, varsLaco, varsApi, varsBackup, varsOrq>>

PassaTempoAlertas ==
    /\ now + 300 <= MaxTempoAlertas
    /\ now' = now + 300
    /\ UNCHANGED <<varsCooldown, varsMonitor, varsPrioridade, varsTreino,
                   varsLaco, varsApi, varsAlertas, varsBackup, varsOrq>>

\* the alerts the loops submit: the monitoring loop the threshold evaluator's
\* cpu_alta, media or alta (sistema.py 273-281); the backup loop backup_sucesso
\* and backup_erro (main.py 150-156, 167-172)
AlertasDe(c) ==
    IF c = "monitor"
    THEN { [tipo |-> "cpu_alta", severidade |-> "media"],
           [tipo |-> "cpu_alta", severidade |-> "alta"] }
    ELSE { [tipo |-> "backup_sucesso", severidade |-> "info"],
           [tipo |-> "backup_erro", severidade |-> "alta"] }

\* what concurrent callers of enviar submit: alerts of one tipo, in two
\* severity words of the maps, one of them also in upper case, and one word
\* outside the maps
AlertasDespacho ==
    [tipo : {"cpu_alta"}, severidade : {"alta", "ALTA", "media", "urgente"}]

\* what one caller submits to exercise the channel map: every severity word
\* of the map, one word in upper case, one word outside the map
AlertasCanais ==
    [tipo : {"cpu_alta"},
     severidade : {"critica", "alta", "media", "baixa", "info", "ALTA", "urgente"}]

\* the configurations of the channels: esta_ativo() of each (canais.py 248,
\* 436, 520); config.py 44-46 enables email alone
ConfigsCanais ==
    { [c \in Canais |-> c = "email"],
      [c \in Canais |-> TRUE] }

\* GerenciadorAlertas.__init__ (canais.py 19-27)
InitAlertasEstado ==
    /\ cooldown_cache = DictVazio
    /\ alert_count = DictVazio
    /\ historico_alertas = << >>
    /\ alerts_db = DictVazio
    /\ chamada = [c \in Chamadores |-> Ocioso]
    /\ ret = [chamador |-> "nenhum", status |-> "nenhum"]
    /\ contatos = 0

\* the dispatcher under the configuration of config.py 44-46
InitAlertasVars ==
    /\ InitAlertasEstado
    /\ canal_ativo = [c \in Canais |-> c = "email"]

(***************************************************************************)
(* GerenciadorBackup (backup/gerenciador.py) and the strategy selection of *)
(* OtimizadorBackup (backup/inteligencia.py) and _backup_loop (main.py).   *)
(*                                                                         *)
(* executar_backup suspends at one place, the await of run_in_executor;    *)
(* what runs before it, the copy in the executor thread, and what runs     *)
(* after it are the three steps of an attempt.  A sqlite3 call that fails  *)
(* (database locked, disk full) is an input of the step that makes it.     *)
(***************************************************************************)
BACKUP_RETENTION_DAYS == 30

\* timedelta(days=d) in seconds
timedelta_days(d) == d * 86400

\* datetime.weekday(), Monday = 0; instant 0 of the clock is a Monday 00:00
weekday(t) == (t \div 86400) % 7

\* who calls executar_backup: _backup_loop (main.py 143) and the background
\* task of POST /api/v1/backups (app.py 260-263)
ChamadoresBackup == {"loop", "api"}

\* the tipo parameter of POST /api/v1/backups
TiposAPI == {"completo", "incremental"}

\* _calcular_tamanho of the resolved targets, in MB
Tamanhos == {0, 1}

\* disk_usage().free, in MB
Livres == {1, 2}

\* the cluster that modelo_cluster.predict answers
Clusters == {0, 1, 2}

\* paths under BACKUP_DIR: backup_<id> (a directory) and backup_<id>.zip
backup_path(id) == [forma |-> "dir", id |-> id]

compactado_path(id) == [forma |-> "zip", id |-> id]

Nenhum == [forma |-> "None", id |-> 0]

\* the rows of table backups, in the columns the retention sweep and the
\* strategy read
RegistroSucesso(t, p, tipo) ==
    [timestamp |-> t, path |-> p, tipo |-> tipo, sucesso |-> TRUE, erro |-> "None"]

RegistroFalha(t, e) ==
    [timestamp |-> t, path |-> Nenhum, tipo |-> "None", sucesso |-> FALSE, erro |-> e]

\* _registrar_backup: CREATE TABLE IF NOT EXISTS, INSERT OR REPLACE, commit
_registrar_backup(store, id, row, db_ok) ==
    IF db_ok THEN DictSet(store, id, row) ELSE store

ComSucesso(store) == {i \in DOMAIN store : store[i].sucesso}

\* _get_ultimo_backup_sucesso / _get_ultimo_backup_completo run a SELECT on
\* table backups, which only _registrar_backup creates: _determinar_targets
\* raises for the types that query it while the table does not exist
_determinar_targets_ok(tipo, tabela) == tipo = "completo" \/ tabela

\* _verificar_espaco
_verificar_espaco_SemFolga(espaco_livre_mb, tamanho_estimado_mb) ==
    espaco_livre_mb >= tamanho_estimado_mb

_verificar_espaco(espaco_livre_mb, tamanho_estimado_mb) ==
    espaco_livre_mb >= tamanho_estimado_mb * 2

\* _compactar_backup: the zip is written and the directory removed; the
\* compression rate divides by resultado["tamanho_mb"], and the handler of
\* the function answers the uncompressed resultado for whatever was raised
_compactar_backup(arts, id, tamanho_mb, zip_ok) ==
    IF ~zip_ok
    THEN [artefatos |-> arts \cup {compactado_path(id)},
          caminho_final |-> backup_path(id)]
    ELSE [artefatos |-> (arts \ {backup_path(id)}) \cup {compactado_path(id)},
          caminho_final |-> IF tamanho_mb = 0 THEN backup_path(id)
                            ELSE compactado_path(id)]

\* _limpar_backups_antigos
corte(t) == t - timedelta_days(BACKUP_RETENTION_DAYS)

\* the rows of the SELECT: older than the cutoff and successful
backups_antigos(store, t) ==
    {i \in DOMAIN store : store[i].timestamp < corte(t) /\ store[i].sucesso}

\* the rows the DELETE leaves: not older than the cutoff
AposDelete(store, t) ==
    [i \in {j \in DOMAIN store : ~(store[j].timestamp < corte(t))} |-> store[i]]

Caminhos(store, ids) == {store[i].path : i \in ids}

\* the old rows whose path exists, and of these the directories, on which
\* Path.unlink raises
AntigosExistentes(store, arts, t) ==
    {i \in backups_antigos(store, t) : store[i].path \in arts}

AntigosDiretorios(store, arts, t) ==
    {i \in AntigosExistentes(store, arts, t) : store[i].path.forma = "dir"}

\* OtimizadorBackup.sugerir_estrategia: the tipo
cluster_tipo(cluster) ==
    CASE cluster = 0 -> "incremental"
      [] cluster = 1 -> "completo"
      [] cluster = 2 -> "diferencial"
      [] OTHER -> "incremental"

Maximo(S) == CHOOSE x \in S : \A y \in S : y <= x

\* dias_desde_ultimo > 7, with dias_desde_ultimo = 1 when no row is successful
dias_desde_ultimo_maior_7(store, t) ==
    /\ ComSucesso(store) # {}
    /\ t - Maximo({store[i].timestamp : i \in ComSucesso(store)}) > timedelta_days(7)

\* a variant whose fallback has no weekly anchor day (no lines 147-148)
sugerir_estrategia_SemAncora(store, t, treinado, cluster) ==
    IF ~treinado
    THEN IF dias_desde_ultimo_maior_7(store, t) THEN "completo"
         ELSE "incremental"
    ELSE IF dias_desde_ultimo_maior_7(store, t) THEN "completo"
         ELSE cluster_tipo(cluster)

\* a variant whose trained branch keeps the cluster's tipo (no lines 167-168)
sugerir_estrategia_SoCluster(store, t, treinado, cluster) ==
    IF ~treinado
    THEN IF dias_desde_ultimo_maior_7(store, t) THEN "completo"
         ELSE IF weekday(t) = 0 THEN "completo"
         ELSE "incremental"
    ELSE cluster_tipo(cluster)

sugerir_estrategia(store, t, treinado, cluster) ==
    IF ~treinado
    THEN IF dias_desde_ultimo_maior_7(store, t) THEN "completo"
         ELSE IF weekday(t) = 0 THEN "completo"
         ELSE "incremental"
    ELSE IF dias_desde_ultimo_maior_7(store, t) THEN "completo"
         ELSE cluster_tipo(cluster)

\* _backup_loop, main.py 137-140
EstrategiaDoLoop(cluster) ==
    IF ENABLE_ML THEN sugerir_estrategia(backups, now, is_trained, cluster)
    ELSE "incremental"

TentativaOciosa ==
    [pc |-> "ocioso", id |-> 0, tipo |-> "None", estimado |-> 0, erro |-> "None"]

\* the end of a call: the caller has its answer
Termina(c, tent, desfecho, motivo) ==
    /\ tentativa' = [tentativa EXCEPT ![c] = TentativaOciosa]
    /\ ret_backup' = [chamador |-> c, id |-> tent.id, tipo |-> tent.tipo,
                      estimado |-> tent.estimado, desfecho |-> desfecho,
                      erro |-> motivo]

\* the except branch of executar_backup (95-106): the failure row, then
\* the raise; when the write of the row fails it is its exception that
\* leaves the function
TerminaComErro(c, tent, store, motivo, db_ok) ==
    /\ backups' = _registrar_backup(store, tent.id, RegistroFalha(now, motivo), db_ok)
    /\ tabela_backups' = (tabela_backups \/ db_ok)
    /\ Termina(c, tent, "erro", motivo)

\* executar_backup up to the await of run_in_executor (34-60)
IniciarBackup(c, tipo) ==
    /\ tentativa[c].pc = "ocioso"
    /\ backups_iniciados < MaxBackups
    /\ backups_iniciados' = backups_iniciados + 1
    /\ \E est \in Tamanhos, db_ok \in BOOLEAN :
         LET tent == [pc |-> "copiando", id |-> now, tipo |-> tipo,
                      estimado |-> est, erro |-> "None"]
         IN  IF ~_determinar_targets_ok(tipo, tabela_backups)
             THEN TerminaComErro(c, [tent EXCEPT !.estimado = 0],
                                 backups, "alvos", db_ok)
             ELSE IF ~_verificar_espaco(espaco_livre, est)
             THEN TerminaComErro(c, tent, backups, "espaco", db_ok)
             ELSE /\ tentativa' = [tentativa EXCEPT ![c] = tent]
                  /\ UNCHANGED <<backups, tabela_backups, ret_backup>>
    /\ UNCHANGED <<now, artefatos, espaco_livre, ENABLE_ML, is_trained,
                   varsCooldown, varsMonitor, varsPrioridade, varsTreino,
                   varsLaco, varsApi, varsAlertas, varsOrq>>

\* one cycle of _backup_loop up to the same await: sugerir_estrategia runs
\* its SELECT on table backups and raises while the table does not exist
BackupDoLoop(cluster) ==
    /\ ENABLE_ML => tabela_backups
    /\ IniciarBackup("loop", EstrategiaDoLoop(cluster))

\* _executar_backup_sync in the executor thread (108-157): mkdir, the
\* copies, metadata.json
CopiaSync(c) ==
    /\ tentativa[c].pc = "copiando"
    /\ \E ok \in BOOLEAN :
         tentativa' = [tentativa EXCEPT ![c].pc = IF ok THEN "copiado" ELSE "copia_falhou"]
    /\ artefatos' = artefatos \cup {backup_path(tentativa[c].id)}
    /\ UNCHANGED <<now, backups, tabela_backups, espaco_livre,
                   backups_iniciados, ret_backup, ENABLE_ML, is_trained,
                   varsCooldown, varsMonitor, varsPrioridade, varsTreino,
                   varsLaco, varsApi, varsAlertas, varsOrq>>

\* executar_backup after the await (62-106): compression, the success row,
\* the retention sweep, the return; or the except branch
ConcluirBackup(c) ==
    /\ tentativa[c].pc \in {"copiado", "copia_falhou"}
    /\ \E zip_ok \in BOOLEAN, db_ok \in BOOLEAN, db_ok2 \in BOOLEAN :
         LET tent == tentativa[c]
             comp == _compactar_backup(artefatos, tent.id, tent.estimado, zip_ok)
             store1 == _registrar_backup(backups, tent.id,
                           RegistroSucesso(now, comp.caminho_final, tent.tipo), TRUE)
             existentes == AntigosExistentes(store1, comp.artefatos, now)
             dirs == AntigosDiretorios(store1, comp.artefatos, now)
         IN  IF tent.pc = "copia_falhou"
             THEN /\ TerminaComErro(c, tent, backups, "copia", db_ok2)
                  /\ UNCHANGED artefatos
             ELSE IF ~db_ok
             THEN /\ TerminaComErro(c, tent, backups, "registro", db_ok2)
                  /\ artefatos' = comp.artefatos
             ELSE IF dirs # {}
             THEN /\ \E parcial \in SUBSET (existentes \ dirs) :
                        artefatos' = comp.artefatos \ Caminhos(store1, parcial)
                  /\ TerminaComErro(c, tent, store1, "limpeza", db_ok2)
             ELSE /\ artefatos' = comp.artefatos \ Caminhos(store1, existentes)
                  /\ backups' = AposDelete(store1, now)
                  /\ tabela_backups' = TRUE
                  /\ Termina(c, tent, "retornou", "None")
    /\ UNCHANGED <<now, espaco_livre, backups_iniciados, ENABLE_ML,
                   is_trained, varsCooldown, varsMonitor, varsPrioridade,
                   varsTreino, varsLaco, varsApi, varsAlertas, varsOrq>>

\* the instants at which the backup manager is observed: a Monday 00:00,
\* the next second, and the same two instants one retention period later
InstantesBackup ==
    {0, 1, timedelta_days(BACKUP_RETENTION_DAYS),
     timedelta_days(BACKUP_RETENTION_DAYS) + 1}

PassaTempoBackup ==
    /\ \E t \in InstantesBackup :
         /\ t > now
         /\ \A u \in InstantesBackup : u > now => t <= u
         /\ now' = t
    /\ UNCHANGED <<varsBackup, varsCooldown, varsMonitor, varsPrioridade,
                   varsTreino, varsLaco, varsApi, varsAlertas, varsOrq>>

\* the other users of the disk: the free space changes
MudaEspacoLivre ==
    /\ \E v \in Livres \ {espaco_livre} : espaco_livre' = v
    /\ UNCHANGED <<now, backups, tabela_backups, artefatos, tentativa,
                   backups_iniciados, ret_backup, ENABLE_ML, is_trained,
                   varsCooldown, varsMonitor, varsPrioridade, varsTreino,
                   varsLaco, varsApi, varsAlertas, varsOrq>>

\* GerenciadorBackup.__init__ and OtimizadorBackup.__init__ on a new
\* database, ML enabled and the models not trained (config.py 38)
InitBackupEstado ==
    /\ backups = DictVazio
    /\ tabela_backups = FALSE
    /\ artefatos = {}
    /\ tentativa = [c \in ChamadoresBackup |-> TentativaOciosa]
    /\ backups_iniciados = 0
    /\ ret_backup = [chamador |-> "nenhum", id |-> 0, tipo |-> "None", estimado |-> 0,
                     desfecho |-> "nenhum", erro |-> "None"]

InitBackupVars ==
    /\ InitBackupEstado
    /\ espaco_livre = 2
    /\ ENABLE_ML = TRUE
    /\ is_trained = FALSE

(***************************************************************************)
(* AutoSysOrchestrator (main.py): start, the four loop tasks, shutdown,    *)
(* and the asyncio.run(main()) that runs them (main.py 313).               *)
(*                                                                         *)
(* A step of a task is what it runs between two awaits that suspend it.    *)
(* The calls into GerenciadorBackup.executar_backup and                    *)
(* GerenciadorAlertas.enviar are modelled with their variables by          *)
(* SpecBackup and SpecAlertas; in the loops of the orchestrator a call is  *)
(* the way it ends: it returns or it raises.                               *)
(*                                                                         *)
(* The runtime: Task.cancel() requests the cancellation, and the task      *)
(* gets CancelledError at the await where it is suspended, the next time   *)
(* the event loop runs it; CancelledError and SystemExit are not           *)
(* Exceptions, so no "except Exception" of the loops catches them.         *)
(* sys.exit(0) raises SystemExit in the main thread; it unwinds the event  *)
(* loop into the finally clause of asyncio.run, which cancels the tasks    *)
(* that are not done and runs the loop until they are; the interpreter     *)
(* then joins the threads of the ThreadPoolExecutor and the process exits. *)
(***************************************************************************)
Tarefas == {"monitoring", "backup", "ml", "web"}

Finais == {"terminada", "cancelada", "excecao"}

\* the sleeps of the loops, seconds: config.py 26, 32, 39 and main.py 130,
\* 174, 199
MONITOR_INTERVAL == 60

BACKUP_INTERVAL == 3600

RETRAIN_INTERVAL == 86400

ESPERA_ERRO_MONITOR == 5

ESPERA_APOS_ERRO == 60

ESPERA_ERRO_ML == 3600

AlertaNenhum == [tipo |-> "nenhum", severidade |-> "nenhuma"]

\* main.py 167-172 and 150-156
AlertaBackupErro == [tipo |-> "backup_erro", severidade |-> "alta"]

AlertaBackupSucesso == [tipo |-> "backup_sucesso", severidade |-> "info"]

\* resultado: what executar_backup answered in the iteration of the backup
\* task (sucesso: it returned; falha: it raised after the copy)
NaoCriada == [pc |-> "nao_criada", must_cancel |-> FALSE, espera |-> 0,
              iteracao |-> 0, enviou |-> AlertaNenhum, resultado |-> "nenhum"]

\* a task asleep: in the sleep that ends an iteration, or in the sleep of
\* the except branch of its loop
Dormindo == {"dormindo", "recuando"}

\* the event loop is running the tasks
LoopAtivo == principal \in {"gather", "finalizando"}

\* the task is scheduled at the head of its loop, no cancellation requested
Pronta(t, pc) == LoopAtivo /\ tasks[t].pc = pc /\ ~tasks[t].must_cancel

VaiPara(t, pc) == tasks' = [tasks EXCEPT ![t].pc = pc, ![t].espera = 0]

\* the task begins an iteration of its loop
Comeca(ts, t) ==
    [ts EXCEPT ![t].iteracao = @ + 1, ![t].enviou = AlertaNenhum,
               ![t].resultado = "nenhum"]

\* the task reaches an asyncio.sleep
Dorme(ts, t, pc, segundos) == [ts EXCEPT ![t].pc = pc, ![t].espera = segundos]

\* task.cancel() for each of self.tasks (299-300); a task that is done
\* ignores it
cancel_tasks(ts) ==
    [t \in Tarefas |->
        IF ts[t].pc \in Finais THEN ts[t] ELSE [ts[t] EXCEPT !.must_cancel = TRUE]]

\* AutoSysOrchestrator.start up to the await of gather (52-78)
start ==
    /\ principal = "start"
    /\ running' = TRUE
    /\ status' = "running"
    /\ tasks' = [t \in Tarefas |-> [NaoCriada EXCEPT !.pc = "topo"]]
    /\ principal' = "gather"
    /\ UNCHANGED <<failures, total_backups, copia_thread, sinais, now,
                   varsCooldown, varsMonitor, varsPrioridade, varsTreino,
                   varsLaco, varsApi, varsAlertas, varsBackup>>

\* a task with a cancellation requested is resumed with CancelledError and
\* ends cancelled; the executor thread of a backup in flight goes on
ReconheceCancelamento(t) ==
    /\ LoopAtivo
    /\ tasks[t].pc \notin Finais
    /\ tasks[t].must_cancel
    /\ VaiPara(t, "cancelada")
    /\ UNCHANGED <<running, status, failures, total_backups, principal,
                   copia_thread, sinais, now, varsCooldown, varsMonitor,
                   varsPrioridade, varsTreino, varsLaco, varsApi, varsAlertas,
                   varsBackup>>

\* asyncio.sleep elapses (125, 130, 160, 174, 195, 199)
Acorda(t) ==
    /\ \E pc \in Dormindo : Pronta(t, pc)
    /\ VaiPara(t, "topo")
    /\ UNCHANGED <<running, status, failures, total_backups, principal,
                   copia_thread, sinais, now, varsCooldown, varsMonitor,
                   varsPrioridade, varsTreino, varsLaco, varsApi, varsAlertas,
                   varsBackup>>

\* _monitoring_loop (86-130): line 91 reads self.sistema_monometer, an
\* attribute that __init__ does not set (it sets sistema_monitor, line 31):
\* every iteration raises AttributeError and runs the except branch
_monitoring_loop ==
    /\ Pronta("monitoring", "topo")
    /\ IF ~running
       THEN VaiPara("monitoring", "terminada") /\ UNCHANGED failures
       ELSE /\ failures < MaxFalhas
            /\ failures' = failures + 1
            /\ tasks' = Dorme(Comeca(tasks, "monitoring"), "monitoring",
                              "recuando", ESPERA_ERRO_MONITOR)
    /\ UNCHANGED <<running, status, total_backups, principal, copia_thread,
                   sinais, now, varsCooldown, varsMonitor, varsPrioridade,
                   varsTreino, varsLaco, varsApi, varsAlertas, varsBackup>>

\* a variant of the except branch that gives the loop up
TrataErroBackup_Desiste(ts, enviar_ok) ==
    /\ failures < MaxFalhas
    /\ failures' = failures + 1
    /\ tasks' = [Dorme(ts, "backup", "terminada", 0)
                 EXCEPT !["backup"].enviou = AlertaBackupErro]

\* the except branch of _backup_loop (162-174), reached in the iteration
\* of ts: the failure counted, then the backup_erro alert, awaited outside
\* any try, then the sleep
TrataErroBackup(ts, enviar_ok) ==
    /\ failures < MaxFalhas
    /\ failures' = failures + 1
    /\ tasks' = [(IF enviar_ok
                  THEN Dorme(ts, "backup", "recuando", ESPERA_APOS_ERRO)
                  ELSE Dorme(ts, "backup", "excecao", 0))
                 EXCEPT !["backup"].enviou = AlertaBackupErro]

\* _backup_loop from the head of the loop to the await of run_in_executor
\* inside executar_backup (134-143), or to the sleep of the except branch
\* when the strategy or the steps before the copy raise
_backup_loop_inicio ==
    /\ Pronta("backup", "topo")
    /\ IF ~running
       THEN /\ VaiPara("backup", "terminada")
            /\ UNCHANGED <<failures, copia_thread>>
       ELSE \E submetido \in BOOLEAN, enviar_ok \in BOOLEAN :
              IF submetido
              THEN /\ ~copia_thread
                   /\ copia_thread' = TRUE
                   /\ tasks' = Dorme(Comeca(tasks, "backup"), "backup",
                                     "copiando", 0)
                   /\ UNCHANGED failures
              ELSE /\ TrataErroBackup(Comeca(tasks, "backup"), enviar_ok)
                   /\ UNCHANGED copia_thread
    /\ UNCHANGED <<running, status, total_backups, principal, sinais, now,
                   varsCooldown, varsMonitor, varsPrioridade, varsTreino,
                   varsLaco, varsApi, varsAlertas, varsBackup>>

\* _executar_backup_sync ends in the executor thread
CopiaTermina ==
    /\ copia_thread
    /\ principal # "encerrado"
    /\ copia_thread' = FALSE
    /\ UNCHANGED <<running, status, failures, total_backups, tasks, principal,
                   sinais, now, varsCooldown, varsMonitor, varsPrioridade,
                   varsTreino, varsLaco, varsApi, varsAlertas, varsBackup>>

\* a variant of _backup_loop after the await that counts the backup before
\* it looks at the result
_backup_loop_fim_ContaTodos ==
    /\ Pronta("backup", "copiando")
    /\ ~copia_thread
    /\ \E backup_ok \in BOOLEAN, sucesso_ok \in BOOLEAN, enviar_ok \in BOOLEAN :
         LET ts == [tasks EXCEPT !["backup"].resultado =
                       IF backup_ok THEN "sucesso" ELSE "falha"]
         IN  /\ IF TRUE
                THEN total_backups < MaxBackups /\ total_backups' = total_backups + 1
                ELSE UNCHANGED total_backups
             /\ IF backup_ok /\ sucesso_ok
                THEN /\ tasks' = [Dorme(ts, "backup", "dormindo", BACKUP_INTERVAL)
                                  EXCEPT !["backup"].enviou = AlertaBackupSucesso]
                     /\ UNCHANGED failures
                ELSE TrataErroBackup(ts, enviar_ok)
    /\ UNCHANGED <<running, status, principal, copia_thread, sinais, now,
                   varsCooldown, varsMonitor, varsPrioridade, varsTreino,
                   varsLaco, varsApi, varsAlertas, varsBackup>>

\* _backup_loop after the await (143-174): executar_backup returns and the
\* backup_sucesso alert is sent, or either raises into the except branch
_backup_loop_fim ==
    /\ Pronta("backup", "copiando")
    /\ ~copia_thread
    /\ \E backup_ok \in BOOLEAN, sucesso_ok \in BOOLEAN, enviar_ok \in BOOLEAN :
         LET ts == [tasks EXCEPT !["backup"].resultado =
                       IF backup_ok THEN "sucesso" ELSE "falha"]
         IN  /\ IF backup_ok
                THEN total_backups < MaxBackups /\ total_backups' = total_backups + 1
                ELSE UNCHANGED total_backups
             /\ IF backup_ok /\ sucesso_ok
                THEN /\ tasks' = [Dorme(ts, "backup", "dormindo", BACKUP_INTERVAL)
                                  EXCEPT !["backup"].enviou = AlertaBackupSucesso]
                     /\ UNCHANGED failures
                ELSE TrataErroBackup(ts, enviar_ok)
    /\ UNCHANGED <<running, status, principal, copia_thread, sinais, now,
                   varsCooldown, varsMonitor, varsPrioridade, varsTreino,
                   varsLaco, varsApi, varsAlertas, varsBackup>>

\* _ml_training_loop (176-199): returns at once with ML disabled.  An
\* iteration asks _deve_retreinar, which catches its own errors, and may
\* retrain; PreditorFalhas.treinar loads its data outside its try
\* (preditor.py 58), so the retraining may raise into the except branch of
\* the loop (197-199), which logs and sleeps
_ml_training_loop ==
    /\ Pronta("ml", "topo")
    /\ IF ~ENABLE_ML \/ ~running
       THEN VaiPara("ml", "terminada")
       ELSE /\ tasks["ml"].iteracao < MaxIteracoes
            /\ \E levantou \in BOOLEAN :
                 tasks' = IF levantou
                          THEN Dorme(Comeca(tasks, "ml"), "ml", "recuando",
                                     ESPERA_ERRO_ML)
                          ELSE Dorme(Comeca(tasks, "ml"), "ml", "dormindo",
                                     RETRAIN_INTERVAL)
    /\ UNCHANGED <<running, status, failures, total_backups, principal,
                   copia_thread, sinais, now, varsCooldown, varsMonitor,
                   varsPrioridade, varsTreino, varsLaco, varsApi, varsAlertas,
                   varsBackup>>

\* _web_server_loop (201-215): the server is set up and served; whatever
\* Exception is raised is logged and the task returns
_web_server_loop ==
    /\ \/ /\ Pronta("web", "topo")
          /\ \E ok \in BOOLEAN : VaiPara("web", IF ok THEN "servindo" ELSE "terminada")
       \/ /\ Pronta("web", "servindo")
          /\ VaiPara("web", "terminada")
    /\ UNCHANGED <<running, status, failures, total_backups, principal,
                   copia_thread, sinais, now, varsCooldown, varsMonitor,
                   varsPrioridade, varsTreino, varsLaco, varsApi, varsAlertas,
                   varsBackup>>

\* a variant of shutdown that sets the status and neither lowers the flag
\* nor cancels the tasks
shutdown_SoStatus(ts) ==
    /\ running' = running
    /\ status' = "stopped"
    /\ tasks' = ts

\* shutdown (292-303) up to sys.exit: the flag, the status, the cancels
shutdown(ts) ==
    /\ running' = FALSE
    /\ status' = "stopped"
    /\ tasks' = cancel_tasks(ts)

\* await asyncio.gather(*self.tasks) (78): the first exception of a task is
\* raised into start, whose except branch (80-84) calls shutdown; with all
\* tasks returned, gather returns and start ends
gather ==
    /\ principal = "gather"
    /\ \/ /\ \E t \in Tarefas : tasks[t].pc = "excecao"
          /\ shutdown(tasks)
       \/ /\ \A t \in Tarefas : tasks[t].pc = "terminada"
          /\ UNCHANGED <<running, status, tasks>>
    /\ principal' = "finalizando"
    /\ UNCHANGED <<failures, total_backups, copia_thread, sinais, now,
                   varsCooldown, varsMonitor, varsPrioridade, varsTreino,
                   varsLaco, varsApi, varsAlertas, varsBackup>>

\* SIGINT or SIGTERM with shutdown as handler (61-62).  The handler runs in
\* the main thread: between two steps of the loop, or inside the step of a
\* task, which then ends with the SystemExit.  Raised while asyncio.run is
\* waiting for the cancelled tasks, the SystemExit ends the wait; raised
\* while the interpreter joins the executor thread, it ends the join.
Sinal ==
    /\ sinais < MaxSinais
    /\ sinais' = sinais + 1
    /\ principal \in {"gather", "finalizando", "juntando"}
    /\ \E vitima \in {"nenhuma"} \cup
                     {t \in Tarefas : principal = "gather" /\ tasks[t].pc = "topo"} :
         shutdown(IF vitima = "nenhuma" THEN tasks
                  ELSE [tasks EXCEPT ![vitima].pc = "excecao"])
    /\ principal' = CASE principal = "gather" -> "finalizando"
                      [] principal = "finalizando" -> "juntando"
                      [] principal = "juntando" -> "encerrado"
    /\ UNCHANGED <<failures, total_backups, copia_thread, now, varsCooldown,
                   varsMonitor, varsPrioridade, varsTreino, varsLaco, varsApi,
                   varsAlertas, varsBackup>>

\* asyncio.run: when SystemExit or the end of main() leaves the loop, the
\* tasks not done are cancelled and awaited; then the loop is closed
FimFinalizacao ==
    /\ principal = "finalizando"
    /\ \A t \in Tarefas : tasks[t].pc \in Finais
    /\ principal' = "juntando"
    /\ UNCHANGED <<running, status, failures, total_backups, tasks,
                   copia_thread, sinais, now, varsCooldown, varsMonitor,
                   varsPrioridade, varsTreino, varsLaco, varsApi, varsAlertas,
                   varsBackup>>

\* the interpreter joins the worker of self.executor and the process exits
Junta ==
    /\ principal = "juntando"
    /\ ~copia_thread
    /\ principal' = "encerrado"
    /\ UNCHANGED <<running, status, failures, total_backups, tasks,
                   copia_thread, sinais, now, varsCooldown, varsMonitor,
                   varsPrioridade, varsTreino, varsLaco, varsApi, varsAlertas,
                   varsBackup>>

\* AutoSysOrchestrator.__init__ (25-50)
InitOrqVars ==
    /\ running = FALSE
    /\ status = "initializing"
    /\ failures = 0
    /\ total_backups = 0
    /\ tasks = [t \in Tarefas |-> NaoCriada]
    /\ principal = "start"
    /\ copia_thread = FALSE
    /\ sinais = 0

(***************************************************************************)
(* A failed cycle of _backup_loop (main.py 134-174) with what it calls:    *)
(* the except branch of executar_backup (gerenciador.py 95-106), then      *)
(* GerenciadorAlertas.enviar on the backup_erro alert, then the sleep.     *)
(* No other caller submits backup_erro, so the calls of the cycle are      *)
(* taken in one step.                                                      *)
(***************************************************************************)
\* resultados of a dispatch to canais with the outcomes d (canais.py 43-60)
ResultadosDe(canais, d) ==
    [i \in 1..Len(canais) |-> Resultado(canais[i], d[i])]

\* a cycle of the loop whose executar_backup fails: the failure row (the
\* store may refuse it), the failure counted, the alert, the sleep.  When
\* enviar raises in the except branch the task ends, and no cycle follows.
_backup_loop_ciclo_falho ==
    /\ backups_iniciados < MaxBackups
    /\ ret.status # "excecao"
    /\ now + ESPERA_APOS_ERRO <= MaxTempoAlertas
    /\ backups_iniciados' = backups_iniciados + 1
    /\ failures' = failures + 1
    /\ \E registro_ok \in BOOLEAN, h \in HashVals, db_ok \in BOOLEAN,
          motivo \in {"espaco", "copia"} :
         LET alerta == _enriquecer_alerta(AlertaBackupErro, now, h)
             canais == _determinar_canais(alerta.severidade, canal_ativo)
         IN  /\ backups' = _registrar_backup(backups, now,
                                RegistroFalha(now, motivo), registro_ok)
             /\ tabela_backups' = (tabela_backups \/ registro_ok)
             /\ IF _em_cooldown(cooldown_cache, alerta, now)
                THEN EnviarSuprimido("backup", alerta)
                ELSE \E d \in [1..Len(canais) -> Desfechos] :
                       /\ Finaliza("backup", alerta, ResultadosDe(canais, d), db_ok)
                       /\ contatos' = contatos + Len(canais)
    /\ now' = now + ESPERA_APOS_ERRO
    /\ UNCHANGED <<canal_ativo, artefatos, espaco_livre, tentativa,
                   ret_backup, ENABLE_ML, is_trained, running, status,
                   total_backups, tasks, principal, copia_thread, sinais,
                   varsCooldown, varsMonitor, varsPrioridade, varsTreino,
                   varsLaco, varsApi>>

\* POST /api/v1/backup (web/app.py 245-269): executar_backup as a background
\* task; when it fails nothing but its own except branch runs
create_backup_falho ==
    /\ backups_iniciados < MaxBackups
    /\ backups_iniciados' = backups_iniciados + 1
    /\ \E registro_ok \in BOOLEAN, motivo \in {"espaco", "copia"} :
         /\ backups' = _registrar_backup(backups, now,
                            RegistroFalha(now, motivo), registro_ok)
         /\ tabela_backups' = (tabela_backups \/ registro_ok)
    /\ UNCHANGED <<now, artefatos, espaco_livre, tentativa, ret_backup,
                   ENABLE_ML, is_trained, varsAlertas, varsOrq, varsCooldown,
                   varsMonitor, varsPrioridade, varsTreino, varsLaco, varsApi>>

(***************************************************************************)
(* SistemaMonitor.verificar_alertas (monitor/sistema.py), PreditorFalhas.  *)
(* prever_falha (monitor/preditor.py) and one iteration of                 *)
(* _monitoring_loop (main.py).  Percentages are whole numbers,             *)
(* probabilities are thousandths (prever_falha rounds to three places).    *)
(***************************************************************************)
\* config.py 27-29
CPU_ALERT_THRESHOLD == 80

MEMORY_ALERT_THRESHOLD == 85

DISK_ALERT_THRESHOLD == 90

\* the snapshots: the four values verificar_alertas reads, on both sides of
\* each comparison it makes
Snapshots ==
    [cpu : {50, 80, 81, 90, 91, 96}, memory : {50, 85, 86, 95, 96},
     disk : {50, 90, 91, 95, 96}, zombie : {0, 2}]

\* a variant whose cpu rule fires at the threshold itself
verificar_alertas_NaoEstrito(m) ==
    (IF m.cpu >= CPU_ALERT_THRESHOLD
     THEN << [tipo |-> "cpu_alta",
              severidade |-> IF m.cpu > 90 THEN "alta" ELSE "media",
              valor |-> m.cpu, threshold |-> CPU_ALERT_THRESHOLD] >>
     ELSE << >>)
    \o (IF m.memory > MEMORY_ALERT_THRESHOLD
        THEN << [tipo |-> "memoria_alta",
                 severidade |-> IF m.memory > 95 THEN "alta" ELSE "media",
                 valor |-> m.memory, threshold |-> MEMORY_ALERT_THRESHOLD] >>
        ELSE << >>)
    \o (IF m.disk > DISK_ALERT_THRESHOLD
        THEN << [tipo |-> "disco_alto",
                 severidade |-> IF m.disk > 95 THEN "alta" ELSE "media",
                 valor |-> m.disk, threshold |-> DISK_ALERT_THRESHOLD] >>
        ELSE << >>)
    \o (IF m.zombie > 0
        THEN << [tipo |-> "processos_zombie", severidade |-> "baixa",
                 valor |-> m.zombie] >>
        ELSE << >>)

\* SistemaMonitor.verificar_alertas (sistema.py 268-315)
verificar_alertas(m) ==
    (IF m.cpu > CPU_ALERT_THRESHOLD
     THEN << [tipo |-> "cpu_alta",
              severidade |-> IF m.cpu > 90 THEN "alta" ELSE "media",
              valor |-> m.cpu, threshold |-> CPU_ALERT_THRESHOLD] >>
     ELSE << >>)
    \o (IF m.memory > MEMORY_ALERT_THRESHOLD
        THEN << [tipo |-> "memoria_alta",
                 severidade |-> IF m.memory > 95 THEN "alta" ELSE "media",
                 valor |-> m.memory, threshold |-> MEMORY_ALERT_THRESHOLD] >>
        ELSE << >>)
    \o (IF m.disk > DISK_ALERT_THRESHOLD
        THEN << [tipo |-> "disco_alto",
                 severidade |-> IF m.disk > 95 THEN "alta" ELSE "media",
                 valor |-> m.disk, threshold |-> DISK_ALERT_THRESHOLD] >>
        ELSE << >>)
    \o (IF m.zombie > 0
        THEN << [tipo |-> "processos_zombie", severidade |-> "baixa",
                 valor |-> m.zombie] >>
        ELSE << >>)

\* the names bound in the try block of prever_falha when its return
\* statement is evaluated (preditor.py 200-255)
NomesLocaisPrever ==
    {"self", "metrics", "features", "features_scaled", "probabilidade", "nivel",
     "mensagem", "feature_importance", "top_features"}

\* preditor.py 228-242
nivel_risco(probabilidade) ==
    IF probabilidade >= 800 THEN "critico"
    ELSE IF probabilidade >= 600 THEN "alto"
    ELSE IF probabilidade >= 400 THEN "medio"
    ELSE IF probabilidade >= 200 THEN "baixo"
    ELSE "minimo"

\* the three dictionaries prever_falha returns (192-196, 257-265, 269-273);
\* tem_top_features tells whether the key top_features is present
RetornoNaoTreinado ==
    [probabilidade |-> 0, nivel_risco |-> "desconhecido",
     mensagem |-> "Modelo nao treinado", tem_top_features |-> FALSE]

RetornoErro ==
    [probabilidade |-> 0, nivel_risco |-> "erro",
     mensagem |-> "Erro na predicao", tem_top_features |-> FALSE]

RetornoPredicao(probabilidade) ==
    [probabilidade |-> probabilidade, nivel_risco |-> nivel_risco(probabilidade),
     mensagem |-> "predicao", tem_top_features |-> TRUE]

\* the try block of prever_falha (198-273): the return statement reads the
\* name probabilidad (258); a name that is not bound raises NameError, which
\* the handler at 267 turns into the error dictionary
prever_falha_try(proba) ==
    IF "probabilidad" \in NomesLocaisPrever
    THEN RetornoPredicao(proba)
    ELSE RetornoErro

\* a variant without the is_trained guard of lines 191-196: self.modelo is
\* None, predict_proba raises, the handler answers
prever_falha_SemGuarda(treinado, proba) ==
    IF ~treinado THEN RetornoErro ELSE prever_falha_try(proba)

\* PreditorFalhas.prever_falha (preditor.py 189-273); proba is what
\* self.modelo.predict_proba gives for the snapshot
prever_falha(treinado, proba) ==
    IF ~treinado THEN RetornoNaoTreinado ELSE prever_falha_try(proba)

\* the attributes AutoSysOrchestrator.__init__ sets (main.py 25-50)
AtributosOrquestrador ==
    {"config", "running", "tasks", "sistema_monitor", "preditor_falhas",
     "gerenciador_backup", "otimizador_backup", "gerenciador_alertas",
     "web_app", "metrics"}

\* the alert of main.py 108-114
AlertaPredicao(pred) ==
    [tipo |-> "predicao_falha", severidade |-> "alta", detalhes |-> pred]

\* main.py 101-115: the alerts of an iteration that has a snapshot
AlertasDoTick(m, ml, treinado, proba, limiar) ==
    LET lista == verificar_alertas(m) IN
    IF ml
    THEN LET pred == prever_falha(treinado, proba) IN
         IF pred.probabilidade > limiar
         THEN Append(lista, AlertaPredicao(pred))
         ELSE lista
    ELSE lista

\* the keys of the dictionary _coletar_disco returns (sistema.py 113-117)
ChavesDisco == {"usage", "io", "total_percent"}

\* metrics.get("disk", {}).get("percent", 0) (main.py 97 and 256)
disk_percent(m) == IF "percent" \in ChavesDisco THEN m.disk ELSE 0

\* main.py 94-99
AtualizaCurrent(m) ==
    [cpu |-> m.cpu, memory |-> m.memory, disk |-> disk_percent(m)]

\* the steps of an iteration that submits the alerts of lista, up to the
\* enviar call number ate
PassosAteEnviar(ml, ate) ==
    <<"coletar", "verificar">> \o (IF ml THEN <<"prever">> ELSE << >>)
        \o [i \in 1..ate |-> "enviar"]

SemEscrita == [n |-> 0, origem |-> "nenhum", tabela |-> "nenhuma", ok |-> TRUE,
               submetidos |-> 0]

Escrita(origem, tabela, ok, submetidos) ==
    [n |-> escrita.n + 1, origem |-> origem, tabela |-> tabela, ok |-> ok,
     submetidos |-> submetidos]

\* one iteration of _monitoring_loop (main.py 88-130).  The snapshot is
\* asked of self.sistema_monometer (91); an attribute the object does not
\* have raises AttributeError, and the handler at 127 counts a failure.  With
\* a snapshot the iteration updates the live values (94-99), submits the
\* alerts of 101-115 one after another and counts each enviar that returns
\* (118-120); enviar raises when the store refuses the row of the alert
\* (canais.py 73, 159-202 has no handler), which ends the iteration in the
\* handler at 127.  _salvar_metricas (217-264) logs a refused row and
\* returns.
_monitoring_tick ==
    /\ failures < MaxFalhas
    /\ IF "sistema_monometer" \in AtributosOrquestrador
       THEN LET lista == AlertasDoTick(metrics, ENABLE_ML, preditor_is_trained,
                                       modelo_proba, PREDICTION_THRESHOLD)
            IN
            \E retornaram \in 0..Len(lista), salvar_ok \in BOOLEAN :
              /\ Len(metrics_db) < MaxFalhas
              /\ current' = AtualizaCurrent(metrics)
              /\ alertas' = [chamado |-> TRUE,
                             retorno |-> verificar_alertas(metrics)]
              /\ predicao' = IF ENABLE_ML
                             THEN [chamado |-> TRUE,
                                   retorno |-> prever_falha(preditor_is_trained,
                                                            modelo_proba)]
                             ELSE predicao
              /\ total_alerts' = total_alerts + retornaram
              /\ IF retornaram < Len(lista)
                 THEN /\ tick' = [desfecho |-> "excecao",
                                  submetidos |-> SubSeq(lista, 1, retornaram + 1),
                                  passos |-> PassosAteEnviar(ENABLE_ML,
                                                             retornaram + 1)]
                      /\ failures' = failures + 1
                      /\ escrita' = Escrita("monitoring", "alerts", FALSE,
                                            retornaram + 1)
                      /\ UNCHANGED metrics_db
                 ELSE /\ tick' = [desfecho |-> "dormiu",
                                  submetidos |-> lista,
                                  passos |-> Append(PassosAteEnviar(ENABLE_ML,
                                                        Len(lista)), "salvar")]
                      /\ metrics_db' =
                            IF salvar_ok
                            THEN Append(metrics_db, AtualizaCurrent(metrics))
                            ELSE metrics_db
                      /\ escrita' = Escrita("monitoring", "metrics", salvar_ok,
                                            Len(lista))
                      /\ UNCHANGED failures
       ELSE /\ tick' = [desfecho |-> "excecao", submetidos |-> << >>,
                        passos |-> << >>]
            /\ failures' = failures + 1
            /\ UNCHANGED <<alertas, predicao, total_alerts, current,
                           metrics_db, escrita>>
    /\ UNCHANGED <<metrics, modelo_proba, preditor_is_trained,
                   PREDICTION_THRESHOLD, running, status, total_backups,
                   tasks, principal, copia_thread, sinais, now, varsCooldown,
                   varsAlertas, varsBackup, varsPrioridade, varsTreino,
                   varsLaco, varsApi>>

\* the except branch of _backup_loop (main.py 162-174) in a failed cycle:
\* the failure counted, then the backup_erro alert submitted; enviar
\* returns (the row written, or the alert in cooldown and no row) or raises
\* because the store refuses the row.  total_alerts is not touched.
_backup_loop_except ==
    /\ failures < MaxFalhas
    /\ failures' = failures + 1
    /\ \E fim \in {"enviado", "cooldown", "excecao"} :
         escrita' = IF fim = "cooldown" THEN escrita
                    ELSE Escrita("backup", "alerts", fim = "enviado", 1)
    /\ UNCHANGED <<metrics, modelo_proba, preditor_is_trained,
                   PREDICTION_THRESHOLD, alertas, predicao, tick,
                   total_alerts, current, metrics_db, running, status,
                   total_backups, tasks, principal, copia_thread, sinais, now,
                   varsCooldown, varsAlertas, varsBackup, varsPrioridade,
                   varsTreino, varsLaco, varsApi>>

\* GET /api/v1/predicoes (web/app.py 315-332): prever_falha on a snapshot
get_predicoes ==
    /\ predicao' = [chamado |-> TRUE,
                    retorno |-> prever_falha(preditor_is_trained, modelo_proba)]
    /\ UNCHANGED <<metrics, modelo_proba, preditor_is_trained,
                   PREDICTION_THRESHOLD, alertas, tick, total_alerts, current,
                   metrics_db, escrita, now, varsCooldown, varsAlertas,
                   varsBackup, varsOrq, varsPrioridade, varsTreino, varsLaco, varsApi>>

\* a verificar_alertas call on the snapshot
ChamaVerificarAlertas ==
    /\ alertas' = [chamado |-> TRUE, retorno |-> verificar_alertas(metrics)]
    /\ UNCHANGED <<metrics, modelo_proba, preditor_is_trained,
                   PREDICTION_THRESHOLD, predicao, tick, total_alerts,
                   current, metrics_db, escrita, now, varsCooldown,
                   varsAlertas, varsBackup, varsOrq, varsPrioridade,
                   varsTreino, varsLaco, varsApi>>

\* what predict_proba may give, and the thresholds of the configuration
\* (config.py 40 sets 0.7)
Probabilidades == {0, 700, 900, 1000}

Limiares == {0, 700, 1000}

InitMonitorEstado ==
    /\ alertas = [chamado |-> FALSE, retorno |-> << >>]
    /\ predicao = [chamado |-> FALSE, retorno |-> RetornoNaoTreinado]
    /\ tick = [desfecho |-> "nenhum", submetidos |-> << >>, passos |-> << >>]
    /\ total_alerts = 0
    /\ current = [cpu |-> 0, memory |-> 0, disk |-> 0]
    /\ metrics_db = << >>
    /\ escrita = SemEscrita

\* PreditorFalhas.__init__ with no model file (preditor.py 23-37), the
\* threshold of config.py 40, an idle host
InitMonitorVars ==
    /\ InitMonitorEstado
    /\ metrics = [cpu |-> 50, memory |-> 50, disk |-> 50, zombie |-> 0]
    /\ modelo_proba = 0
    /\ preditor_is_trained = FALSE
    /\ PREDICTION_THRESHOLD = 700

(***************************************************************************)
(* PriorizadorAlertas.calcular_prioridade (alertas/priorizacao.py).        *)
(***************************************************************************)
Min(a, b) == IF a < b THEN a ELSE b

\* severidade_scores of calcular_prioridade (priorizacao.py 27-34)
severidade_scores(severidade) ==
    LET s == Lower(severidade) IN
    CASE s = "critica" -> 40
      [] s = "alta" -> 30
      [] s = "media" -> 20
      [] s = "baixa" -> 10
      [] s = "info" -> 5
      [] OTHER -> 20

\* _calcular_frequencia (priorizacao.py 48-77); total is the COUNT(*) of the
\* rows of the type in the last 24 hours
_calcular_frequencia(total) ==
    IF total > 50 THEN 20
    ELSE IF total > 20 THEN 15
    ELSE IF total > 10 THEN 10
    ELSE IF total > 5 THEN 5
    ELSE IF total > 2 THEN 2
    ELSE 0

\* tipos_impacto of _calcular_impacto (priorizacao.py 84-93)
tipos_impacto(tipo) ==
    CASE tipo = "cpu_alta" -> 15
      [] tipo = "memoria_alta" -> 15
      [] tipo = "disco_alto" -> 20
      [] tipo = "predicao_falha" -> 25
      [] tipo = "backup_erro" -> 10
      [] tipo = "servico_parado" -> 25
      [] OTHER -> 5

\* _calcular_impacto (priorizacao.py 79-105); tem_valor tells whether the
\* alert has both keys valor and threshold; valor > threshold * 1.5 and
\* valor > threshold * 1.2 on whole numbers
_calcular_impacto(alerta) ==
    LET base == tipos_impacto(alerta.tipo)
        extra == IF ~alerta.tem_valor THEN 0
                 ELSE IF 2 * alerta.valor > 3 * alerta.threshold THEN 10
                 ELSE IF 5 * alerta.valor > 6 * alerta.threshold THEN 5
                 ELSE 0
    IN  Min(25, base + extra)

\* _calcular_recencia (priorizacao.py 107-126); idade is now - timestamp in
\* minutes; not valida is a timestamp that fromisoformat rejects (the bare
\* except of 123 answers)
_calcular_recencia(idade) ==
    IF ~idade.valida THEN 0
    ELSE IF idade.minutos < 5 THEN 15
    ELSE IF idade.minutos < 15 THEN 10
    ELSE IF idade.minutos < 30 THEN 5
    ELSE IF idade.minutos < 60 THEN 2
    ELSE 0

\* PriorizadorAlertas.calcular_prioridade (priorizacao.py 21-46), on the
\* COUNT(*) that the SELECT of _calcular_frequencia answers
calcular_prioridade(alerta, total, idade) ==
    Min(100, severidade_scores(alerta.severidade)
                 + Min(20, _calcular_frequencia(total) * 2)
                 + _calcular_impacto(alerta) + _calcular_recencia(idade))

SeveridadesPrioridade ==
    {"critica", "alta", "media", "baixa", "info", "ALTA", "urgente"}

TiposPrioridade == {"cpu_alta", "disco_alto", "predicao_falha", "outro"}

\* no valor/threshold, then valor at 1.2 x, above 1.2 x, at 1.5 x, above 1.5 x
ValoresPrioridade ==
    { [tem_valor |-> FALSE, valor |-> 0, threshold |-> 0],
      [tem_valor |-> TRUE, valor |-> 96, threshold |-> 80],
      [tem_valor |-> TRUE, valor |-> 97, threshold |-> 80],
      [tem_valor |-> TRUE, valor |-> 120, threshold |-> 80],
      [tem_valor |-> TRUE, valor |-> 121, threshold |-> 80] }

TotaisPrioridade == {0, 2, 3, 5, 6, 10, 11, 20, 21, 50, 51}

IdadesPrioridade ==
    {[valida |-> FALSE, minutos |-> 0]}
        \cup [valida : {TRUE}, minutos : {-10, 0, 4, 5, 14, 15, 29, 30, 59, 60}]

AlertasPrioridade ==
    { [tipo |-> t, severidade |-> s, tem_valor |-> v.tem_valor,
       valor |-> v.valor, threshold |-> v.threshold] :
        t \in TiposPrioridade, s \in SeveridadesPrioridade,
        v \in ValoresPrioridade }

\* the names bound in module priorizacao (its imports, lines 2-6, and its
\* two classes); _calcular_frequencia reads config.DB_PATH (line 50)
NomesModuloPriorizacao ==
    {"np", "Dict", "Any", "List", "Tuple", "defaultdict", "datetime",
     "timedelta", "sqlite3", "PriorizadorAlertas", "GerenciadorCooldown"}

\* a calcular_prioridade call on the arguments at hand: the severity part,
\* then _calcular_frequencia, whose first statement looks the name config up
\* and raises NameError when the module does not bind it
ChamaCalcularPrioridade ==
    /\ ~prioridade.chamado
    /\ prioridade' =
          IF "config" \in NomesModuloPriorizacao
          THEN [prioridade EXCEPT
                   !.chamado = TRUE,
                   !.retorno = calcular_prioridade(prioridade.alerta,
                                   prioridade.total, prioridade.idade)]
          ELSE [prioridade EXCEPT !.chamado = TRUE, !.levantou = TRUE]
    /\ UNCHANGED <<now, varsCooldown, varsAlertas, varsBackup, varsOrq,
                   varsMonitor, varsTreino, varsLaco, varsApi>>

\* no call made yet, on one alert
InitPrioridadeVars ==
    prioridade = [chamado |-> FALSE, levantou |-> FALSE, retorno |-> 0,
                  alerta |-> [tipo |-> "cpu_alta", severidade |-> "media",
                              tem_valor |-> FALSE, valor |-> 0, threshold |-> 0],
                  total |-> 0, idade |-> [valida |-> TRUE, minutos |-> 0]]

(***************************************************************************)
(* PreditorFalhas.treinar (monitor/preditor.py) and OtimizadorBackup.      *)
(* treinar (backup/inteligencia.py).  Neither has an await inside: a call  *)
(* is one step of the event loop.  A model or scaler object is known by    *)
(* the treinar call that built or refitted it (0: the object that __init__ *)
(* made or loaded) and by whether it has been fitted.  Which statement of  *)
(* a run raises belongs to the data and to the disk, and is an input.      *)
(***************************************************************************)
MaxTreinos == 3        \* treinar calls in a run

\* preditor.py 60 and inteligencia.py 50: the fewest rows a run trains on
MinimoPreditor == 1000

MinimoOtimizador == 100

Objeto(de, fitted) == [de |-> de, fitted |-> fitted]

\* the statement of PreditorFalhas.treinar that raises, by line; 0: none.
\* 58 is outside the try; 70 is before the first assignment; 90 is
\* self.modelo.fit; 109 is joblib.dump
PontosPreditor == {0, 58, 70, 90, 109}

\* the statement of OtimizadorBackup.treinar that raises, by line; 0: none.
\* 48 is outside the try; 56 is before the first assignment; 66 and 73 are
\* the two fits; 76 is joblib.dump
PontosOtimizador == {0, 48, 56, 66, 73, 76}

RegistrosPreditor == {MinimoPreditor - 1, MinimoPreditor}

RegistrosOtimizador == {MinimoOtimizador - 1, MinimoOtimizador}

\* PreditorFalhas.treinar (50-123), run number n: the objects after it.
\* fit_transform refits self.scaler in place (78), self.modelo is assigned
\* a new classifier (82) and fitted (90), all before the files are written
\* (109-114) and before is_trained is set (116)
treinar_preditor(p, treinado, force, registros, falha, n) ==
    IF treinado /\ ~force
    THEN [objetos |-> p, is_trained |-> treinado, desfecho |-> "already_trained"]
    ELSE IF falha = 58
    THEN [objetos |-> p, is_trained |-> treinado, desfecho |-> "excecao"]
    ELSE IF registros < MinimoPreditor
    THEN [objetos |-> p, is_trained |-> treinado, desfecho |-> "insufficient_data"]
    ELSE IF falha = 70
    THEN [objetos |-> p, is_trained |-> treinado, desfecho |-> "error"]
    ELSE IF falha = 90
    THEN [objetos |-> [modelo |-> Objeto(n, FALSE), scaler |-> Objeto(n, TRUE)],
          is_trained |-> treinado, desfecho |-> "error"]
    ELSE IF falha = 109
    THEN [objetos |-> [modelo |-> Objeto(n, TRUE), scaler |-> Objeto(n, TRUE)],
          is_trained |-> treinado, desfecho |-> "error"]
    ELSE [objetos |-> [modelo |-> Objeto(n, TRUE), scaler |-> Objeto(n, TRUE)],
          is_trained |-> TRUE, desfecho |-> "success"]

\* OtimizadorBackup.treinar (43-87), run number n: self.scaler refitted in
\* place (59), self.modelo_predicao assigned (61) and fitted (66),
\* self.modelo_cluster assigned (72) and fitted (73), then the files
\* (76-78), then is_trained (80)
treinar_otimizador(o, treinado, registros, falha, n) ==
    IF falha = 48
    THEN [objetos |-> o, is_trained |-> treinado, desfecho |-> "excecao"]
    ELSE IF registros < MinimoOtimizador
    THEN [objetos |-> o, is_trained |-> treinado, desfecho |-> "insufficient_data"]
    ELSE IF falha = 56
    THEN [objetos |-> o, is_trained |-> treinado, desfecho |-> "error"]
    ELSE IF falha = 66
    THEN [objetos |-> [o EXCEPT !.scaler = Objeto(n, TRUE),
                                !.modelo_predicao = Objeto(n, FALSE)],
          is_trained |-> treinado, desfecho |-> "error"]
    ELSE IF falha = 73
    THEN [objetos |-> [scaler |-> Objeto(n, TRUE),
                       modelo_predicao |-> Objeto(n, TRUE),
                       modelo_cluster |-> Objeto(n, FALSE)],
          is_trained |-> treinado, desfecho |-> "error"]
    ELSE IF falha = 76
    THEN [objetos |-> [scaler |-> Objeto(n, TRUE),
                       modelo_predicao |-> Objeto(n, TRUE),
                       modelo_cluster |-> Objeto(n, TRUE)],
          is_trained |-> treinado, desfecho |-> "error"]
    ELSE [objetos |-> [scaler |-> Objeto(n, TRUE),
                       modelo_predicao |-> Objeto(n, TRUE),
                       modelo_cluster |-> Objeto(n, TRUE)],
          is_trained |-> TRUE, desfecho |-> "success"]

\* a PreditorFalhas.treinar call: retreinar (275-277) passes force = True
ChamaTreinarPreditor ==
    /\ treino.execucoes < MaxTreinos
    /\ \E force \in BOOLEAN, registros \in RegistrosPreditor,
          falha \in PontosPreditor :
         LET n == treino.execucoes + 1
             r == treinar_preditor(treino.preditor, preditor_is_trained, force,
                                   registros, falha, n)
         IN  /\ treino' = [treino EXCEPT
                              !.preditor = r.objetos,
                              !.execucoes = n,
                              !.ultimo = [quem |-> "preditor",
                                          desfecho |-> r.desfecho]]
             /\ preditor_is_trained' = r.is_trained
    /\ UNCHANGED <<metrics, modelo_proba, PREDICTION_THRESHOLD, alertas,
                   predicao, tick, total_alerts, current, metrics_db, escrita,
                   now, varsCooldown, varsAlertas, varsBackup, varsOrq,
                   varsPrioridade, varsLaco, varsApi>>

\* an OtimizadorBackup.treinar call: retreinar (344-346) or a negative
\* feedback (339-342)
ChamaTreinarOtimizador ==
    /\ treino.execucoes < MaxTreinos
    /\ \E registros \in RegistrosOtimizador, falha \in PontosOtimizador :
         LET n == treino.execucoes + 1
             r == treinar_otimizador(treino.otimizador, is_trained, registros,
                                     falha, n)
         IN  /\ treino' = [treino EXCEPT
                              !.otimizador = r.objetos,
                              !.execucoes = n,
                              !.ultimo = [quem |-> "otimizador",
                                          desfecho |-> r.desfecho]]
             /\ is_trained' = r.is_trained
    /\ UNCHANGED <<backups, tabela_backups, artefatos, espaco_livre,
                   tentativa, backups_iniciados, ret_backup, ENABLE_ML, now,
                   varsCooldown, varsAlertas, varsOrq, varsMonitor,
                   varsPrioridade, varsLaco, varsApi>>

\* the count _deve_retreinar compares the new rows with (main.py 287)
LimiarRetreino == 100

\* the rows of table metrics of the last day, around the threshold
NovosRegistros == {LimiarRetreino - 1, LimiarRetreino, LimiarRetreino + 1}

\* AutoSysOrchestrator._deve_retreinar (main.py 266-290): the COUNT(*) of
\* the rows of the last day, compared at 287; False when the query raises
_deve_retreinar(novos_registros, leitura_ok) ==
    leitura_ok /\ novos_registros > LimiarRetreino

\* one iteration of _ml_training_loop (main.py 181-199) with ML enabled:
\* the question, then preditor_falhas.retreinar() and
\* otimizador_backup.retreinar() one after the other; an exception of the
\* first (preditor.py 58 is outside the try of treinar) skips the second
\* and goes to the except branch of the loop
_ml_training_ciclo ==
    /\ ENABLE_ML
    /\ treino.ciclo.n < MaxIteracoes
    /\ \E novos \in NovosRegistros, leitura_ok \in BOOLEAN :
         LET n == treino.execucoes + 1
             ciclo(retreinou, desfecho) ==
                 [n |-> treino.ciclo.n + 1, novos |-> novos,
                  leitura_ok |-> leitura_ok, retreinou |-> retreinou,
                  desfecho |-> desfecho]
         IN  IF ~_deve_retreinar(novos, leitura_ok)
             THEN /\ treino' = [treino EXCEPT !.ciclo = ciclo(FALSE, "dormiu")]
                  /\ UNCHANGED <<preditor_is_trained, is_trained>>
             ELSE /\ treino.execucoes + 2 <= MaxTreinos
                  /\ \E registros_p \in RegistrosPreditor,
                        falha_p \in PontosPreditor :
                       LET rp == treinar_preditor(treino.preditor,
                                     preditor_is_trained, TRUE, registros_p,
                                     falha_p, n)
                       IN  /\ preditor_is_trained' = rp.is_trained
                           /\ IF rp.desfecho = "excecao"
                              THEN /\ treino' = [treino EXCEPT
                                          !.execucoes = n,
                                          !.ultimo = [quem |-> "preditor",
                                                      desfecho |-> rp.desfecho],
                                          !.ciclo = ciclo(TRUE, "excecao")]
                                   /\ UNCHANGED is_trained
                              ELSE \E registros_o \in RegistrosOtimizador,
                                      falha_o \in PontosOtimizador :
                                     LET ro == treinar_otimizador(
                                                  treino.otimizador, is_trained,
                                                  registros_o, falha_o, n + 1)
                                     IN  /\ treino' = [treino EXCEPT
                                                !.preditor = rp.objetos,
                                                !.otimizador = ro.objetos,
                                                !.execucoes = n + 1,
                                                !.ultimo =
                                                    [quem |-> "otimizador",
                                                     desfecho |-> ro.desfecho],
                                                !.ciclo =
                                                    ciclo(TRUE,
                                                          IF ro.desfecho = "excecao"
                                                          THEN "excecao"
                                                          ELSE "dormiu")]
                                         /\ is_trained' = ro.is_trained
    /\ UNCHANGED <<backups, tabela_backups, artefatos, espaco_livre, tentativa,
                   backups_iniciados, ret_backup, ENABLE_ML, metrics,
                   modelo_proba, PREDICTION_THRESHOLD, alertas, predicao, tick,
                   total_alerts, current, metrics_db, escrita, now,
                   varsCooldown, varsAlertas, varsOrq, varsPrioridade,
                   varsLaco, varsApi>>

\* the objects of the two __init__ (preditor.py 23-37, inteligencia.py
\* 21-29): fitted when _load_model / _load_models found the files
ObjetosIniciais(p_treinado, o_treinado) ==
    [preditor |-> [modelo |-> Objeto(0, p_treinado),
                   scaler |-> Objeto(0, p_treinado)],
     otimizador |-> [scaler |-> Objeto(0, o_treinado),
                     modelo_predicao |-> Objeto(0, o_treinado),
                     modelo_cluster |-> Objeto(0, o_treinado)],
     execucoes |-> 0,
     ultimo |-> [quem |-> "nenhum", desfecho |-> "nenhum"],
     ciclo |-> [n |-> 0, novos |-> 0, leitura_ok |-> TRUE, retreinou |-> FALSE,
                desfecho |-> "nenhum"]]

InitTreinoVars == treino = ObjetosIniciais(FALSE, FALSE)

(***************************************************************************)
(* The event loop thread.  start (main.py 64-78) runs the loops as tasks   *)
(* of one event loop: one thread runs one coroutine from a resumption to   *)
(* its next suspension.  Of the awaits of executar_backup (gerenciador.py  *)
(* 41-82) the one of run_in_executor (54-60) suspends; the others await    *)
(* coroutines that contain no suspension (159-350: sqlite3, rglob,         *)
(* zipfile, rmtree, unlink), so they run on the thread without leaving it. *)
(***************************************************************************)
MaxTicks == 2          \* iterations of _monitoring_loop in a run

\* the phases of an executar_backup call, in the order of the code:
\* _determinar_targets (41), _calcular_tamanho (44), _verificar_espaco (47),
\* _executar_backup_sync in the executor (54-60), _compactar_backup (67),
\* _registrar_backup (70-79), _limpar_backups_antigos (82)
FasesBackup ==
    <<"targets", "tamanho", "espaco", "copia", "compactacao", "registro",
      "retencao">>

\* the phase during which the coroutine is suspended and the thread is free
SuspendeNaFase(fase) == fase = "copia"

\* what the thread runs while the call is in the phase
Ocupante(l) ==
    IF l.fase # "fora" /\ ~SuspendeNaFase(l.fase) THEN "backup" ELSE "nenhum"

\* the phase after phase i: line 66 skips the compression when the strategy
\* says so; the call returns after the last one
ProximaFase(i, compressao) ==
    IF i = Len(FasesBackup) THEN "fora"
    ELSE IF FasesBackup[i + 1] = "compactacao" /\ ~compressao
    THEN FasesBackup[i + 2]
    ELSE FasesBackup[i + 1]

\* no call in progress, _monitoring_loop in its sleep
InitLacoVars ==
    laco = [fase |-> "fora", compressao |-> TRUE, chamadas |-> 0,
            monitor |-> "dormindo", ticks |-> 0, tick_na_fase |-> "nenhuma"]

\* a call of executar_backup begins (31-41), from _backup_loop or from the
\* API; estrategia.get("compressao", True)
executar_backup_comeca ==
    /\ laco.fase = "fora"
    /\ laco.chamadas < MaxBackups
    /\ \E compressao \in BOOLEAN :
         laco' = [laco EXCEPT !.fase = FasesBackup[1],
                              !.compressao = compressao,
                              !.chamadas = @ + 1]
    /\ UNCHANGED <<now, varsCooldown, varsAlertas, varsBackup, varsOrq,
                   varsMonitor, varsPrioridade, varsTreino, varsApi>>

\* the call goes from a phase to the next; a phase that raises goes to the
\* except branch (95-106), whose _registrar_backup runs on the thread too
executar_backup_avanca ==
    /\ \E i \in 1..Len(FasesBackup) :
         /\ laco.fase = FasesBackup[i]
         /\ \E levanta \in BOOLEAN :
              laco' = [laco EXCEPT !.fase = IF levanta THEN "registro_falha"
                                           ELSE ProximaFase(i, laco.compressao)]
    /\ UNCHANGED <<now, varsCooldown, varsAlertas, varsBackup, varsOrq,
                   varsMonitor, varsPrioridade, varsTreino, varsApi>>

\* the except branch ends: the raise of line 106
executar_backup_levanta ==
    /\ laco.fase = "registro_falha"
    /\ laco' = [laco EXCEPT !.fase = "fora"]
    /\ UNCHANGED <<now, varsCooldown, varsAlertas, varsBackup, varsOrq,
                   varsMonitor, varsPrioridade, varsTreino, varsApi>>

\* the deadline of asyncio.sleep(MONITOR_INTERVAL) (main.py 125) passes
sleep_expira ==
    /\ laco.monitor = "dormindo"
    /\ laco.ticks < MaxTicks
    /\ laco' = [laco EXCEPT !.monitor = "pronto"]
    /\ UNCHANGED <<now, varsCooldown, varsAlertas, varsBackup, varsOrq,
                   varsMonitor, varsPrioridade, varsTreino, varsApi>>

\* the thread resumes _monitoring_loop, which runs one iteration (main.py
\* 88-125) and sleeps again; the thread resumes a task only when it runs
\* no other coroutine
_monitoring_loop_retoma ==
    /\ laco.monitor = "pronto"
    /\ Ocupante(laco) = "nenhum"
    /\ laco' = [laco EXCEPT !.monitor = "dormindo",
                            !.ticks = @ + 1,
                            !.tick_na_fase = laco.fase]
    /\ UNCHANGED <<now, varsCooldown, varsAlertas, varsBackup, varsOrq,
                   varsMonitor, varsPrioridade, varsTreino, varsApi>>

(***************************************************************************)
(* The calls of an operator: feedback on a backup (web/app.py 374-394,     *)
(* inteligencia.py 294-342) and the restore of a backup (gerenciador.py    *)
(* 404-446).                                                               *)
(***************************************************************************)
MaxChamadasApi == 2    \* feedback or restore calls in a run

\* the backups an operator names
IdsFeedback == {"b1", "b2"}

\* the value of feedback.get(chave, 3) (inteligencia.py 325-326, 337)
Nota(feedback, chave) == IF chave \in DOMAIN feedback THEN feedback[chave] ELSE 3

\* the feedback bodies: each rating absent, below the floor or at the floor
Feedbacks ==
    UNION {[ks -> {1, 2}] : ks \in SUBSET {"utilidade", "performance"}}

\* the test of line 337
FeedbackNegativo(feedback) ==
    Nota(feedback, "utilidade") < 2 \/ Nota(feedback, "performance") < 2

\* no call made
\* an id that no backup has
IdDesconhecido == -1

InitApiVars ==
    /\ backup_feedback = DictVazio
    /\ destino = [pedido |-> IdDesconhecido, escrito |-> {}]
    /\ ret_api = [n |-> 0, op |-> "nenhuma", desfecho |-> "nenhum",
                  retreinou |-> FALSE]

\* OtimizadorBackup.aprender_com_feedback (294-342).  The row is written by
\* a plain INSERT with no handler (322-331); the key of the table is
\* (backup_id, timestamp) and timestamp is CURRENT_TIMESTAMP, a second, so
\* a second feedback on the backup within the second is refused by the
\* key, and the exception leaves the function before line 337.  With the
\* row written, a negative feedback awaits self.treinar() (339), whose data
\* load (48) is outside its try.
aprender_com_feedback(backup_id, feedback) ==
    /\ ret_api.n < MaxChamadasApi
    /\ \E db_ok \in BOOLEAN :
         LET chave == <<backup_id, now>>
             fim(desfecho, retreinou) ==
                 [n |-> ret_api.n + 1, op |-> "feedback", desfecho |-> desfecho,
                  retreinou |-> retreinou]
         IN  IF ~db_ok \/ chave \in DOMAIN backup_feedback
             THEN /\ ret_api' = fim("excecao", FALSE)
                  /\ UNCHANGED <<backup_feedback, treino, is_trained>>
             ELSE /\ backup_feedback' =
                        DictSet(backup_feedback, chave,
                                [utilidade |-> Nota(feedback, "utilidade"),
                                 performance |-> Nota(feedback, "performance")])
                  /\ IF ~FeedbackNegativo(feedback)
                     THEN /\ ret_api' = fim("retornou", FALSE)
                          /\ UNCHANGED <<treino, is_trained>>
                     ELSE /\ treino.execucoes < MaxTreinos
                          /\ \E registros \in RegistrosOtimizador,
                                falha \in PontosOtimizador :
                               LET n == treino.execucoes + 1
                                   r == treinar_otimizador(treino.otimizador,
                                            is_trained, registros, falha, n)
                               IN  /\ treino' = [treino EXCEPT
                                          !.otimizador = r.objetos,
                                          !.execucoes = n,
                                          !.ultimo = [quem |-> "otimizador",
                                                      desfecho |-> r.desfecho]]
                                   /\ is_trained' = r.is_trained
                                   /\ ret_api' =
                                          fim(IF r.desfecho = "excecao"
                                              THEN "excecao" ELSE "retornou",
                                              TRUE)
    /\ UNCHANGED <<backups, tabela_backups, artefatos, espaco_livre, tentativa,
                   backups_iniciados, ret_backup, ENABLE_ML, destino, now,
                   varsCooldown, varsAlertas, varsOrq, varsMonitor,
                   varsPrioridade, varsLaco>>

\* GerenciadorBackup.restaurar_backup (404-446).  The SELECT (410-415) is
\* outside any try: while table backups does not exist it raises
\* sqlite3.OperationalError.  No row with the id and sucesso = 1: BackupError
\* (420-421).  Otherwise extractall or copytree write under the destination;
\* when they raise, having written nothing, or a part, the handler (443-446)
\* raises BackupError.  The function has no INSERT, UPDATE or DELETE.
restaurar_backup(backup_id) ==
    /\ ret_api.n < MaxChamadasApi
    /\ LET fim(desfecho) ==
               [n |-> ret_api.n + 1, op |-> "restaurar", desfecho |-> desfecho,
                retreinou |-> FALSE]
           pedido == [destino EXCEPT !.pedido = backup_id]
       IN  IF ~tabela_backups
           THEN ret_api' = fim("OperationalError") /\ destino' = pedido
           ELSE IF backup_id \notin DOMAIN backups \/ ~backups[backup_id].sucesso
           THEN ret_api' = fim("BackupError") /\ destino' = pedido
           ELSE IF backups[backup_id].path \notin artefatos
           THEN ret_api' = fim("BackupError") /\ destino' = pedido
           ELSE \E escreveu \in {"nada", "parte", "tudo"} :
                  /\ ret_api' = fim(IF escreveu = "tudo" THEN "retornou"
                                    ELSE "BackupError")
                  /\ destino' =
                        IF escreveu = "nada" THEN pedido
                        ELSE [pedido EXCEPT !.escrito =
                                 @ \cup {[de |-> backups[backup_id].path,
                                          completo |-> (escreveu = "tudo")]}]
    /\ UNCHANGED <<now, backup_feedback, varsBackup, varsCooldown, varsAlertas,
                   varsOrq, varsMonitor, varsPrioridade, varsTreino, varsLaco>>

\* a second passes between two calls
PassaSegundo ==
    /\ now < MaxChamadasApi
    /\ now' = now + 1
    /\ UNCHANGED <<varsCooldown, varsAlertas, varsBackup, varsOrq, varsMonitor,
                   varsPrioridade, varsTreino, varsLaco, varsApi>>

(***************************************************************************)
(* The specifications.                                                     *)
(***************************************************************************)
InitAlertas ==
    /\ now = 0
    /\ InitCooldownVars
    /\ InitAlertasEstado
    /\ canal_ativo \in ConfigsCanais
    /\ InitBackupVars
    /\ InitOrqVars
    /\ InitMonitorVars
    /\ InitPrioridadeVars
    /\ InitTreinoVars
    /\ InitLacoVars
    /\ InitApiVars

NextAlertas ==
    \/ \E c \in Chamadores : \E a \in AlertasDe(c) : EnviarInicio(c, a)
    \/ \E c \in Chamadores : EnviarCanal(c)
    \/ PassaTempoAlertas

SpecAlertas == InitAlertas /\ [][NextAlertas]_vars

\* the dispatcher with concurrent callers that submit alerts of one tipo
NextDespacho ==
    \/ \E c \in Chamadores : \E a \in AlertasDespacho : EnviarInicio(c, a)
    \/ \E c \in Chamadores : EnviarCanal(c)
    \/ PassaTempoAlertas

SpecDespacho == InitAlertas /\ [][NextDespacho]_vars

\* the dispatcher with one caller, every severity, and channels that may
\* raise
NextCanais ==
    \/ \E a \in AlertasCanais : EnviarInicio("monitor", a)
    \/ EnviarCanal("monitor")
    \/ EnviarCanalLevanta("monitor")

SpecCanais == InitAlertas /\ [][NextCanais]_vars

InitCooldown ==
    /\ now = 0
    /\ InitCooldownVars
    /\ InitAlertasVars
    /\ InitBackupVars
    /\ InitOrqVars
    /\ InitMonitorVars
    /\ InitPrioridadeVars
    /\ InitTreinoVars
    /\ InitLacoVars
    /\ InitApiVars

NextCooldown ==
    \/ \E a \in AlertasCooldown : ConsultaShouldAlert(a)
    \/ \E a \in AlertasCooldown, ok \in BOOLEAN : registrar_envio(a, ok)
    \/ PassaTempoCooldown

SpecCooldown == InitCooldown /\ [][NextCooldown]_vars

\* the backup manager: ML enabled or not, the models loaded or not
InitBackup ==
    /\ now = 0
    /\ InitCooldownVars
    /\ InitAlertasVars
    /\ InitBackupEstado
    /\ espaco_livre \in Livres
    /\ ENABLE_ML \in BOOLEAN
    /\ is_trained \in BOOLEAN
    /\ InitOrqVars
    /\ InitMonitorVars
    /\ InitPrioridadeVars
    /\ InitTreinoVars
    /\ InitLacoVars
    /\ InitApiVars

NextBackup ==
    \/ \E cluster \in Clusters : BackupDoLoop(cluster)
    \/ \E tipo \in TiposAPI : IniciarBackup("api", tipo)
    \/ \E c \in ChamadoresBackup : CopiaSync(c)
    \/ \E c \in ChamadoresBackup : ConcluirBackup(c)
    \/ PassaTempoBackup
    \/ MudaEspacoLivre

SpecBackup == InitBackup /\ [][NextBackup]_vars

\* the orchestrator, ML enabled or not
InitOrquestrador ==
    /\ now = 0
    /\ InitCooldownVars
    /\ InitAlertasVars
    /\ InitBackupEstado
    /\ espaco_livre = 2
    /\ is_trained = FALSE
    /\ ENABLE_ML \in BOOLEAN
    /\ InitOrqVars
    /\ InitMonitorVars
    /\ InitPrioridadeVars
    /\ InitTreinoVars
    /\ InitLacoVars
    /\ InitApiVars

NextOrquestrador ==
    \/ start
    \/ _monitoring_loop
    \/ _backup_loop_inicio
    \/ CopiaTermina
    \/ _backup_loop_fim
    \/ _ml_training_loop
    \/ _web_server_loop
    \/ \E t \in Tarefas : Acorda(t)
    \/ \E t \in Tarefas : ReconheceCancelamento(t)
    \/ gather
    \/ Sinal
    \/ FimFinalizacao
    \/ Junta

SpecOrquestrador == InitOrquestrador /\ [][NextOrquestrador]_vars

\* the event loop runs every task that is ready and every sleep elapses;
\* the executor thread runs; asyncio.run and the interpreter go on
JusticaOrquestrador ==
    /\ \A t \in Tarefas : WF_vars(Acorda(t)) /\ WF_vars(ReconheceCancelamento(t))
    /\ WF_vars(_monitoring_loop)
    /\ WF_vars(_backup_loop_inicio)
    /\ WF_vars(CopiaTermina)
    /\ WF_vars(_backup_loop_fim)
    /\ WF_vars(_ml_training_loop)
    /\ WF_vars(gather)
    /\ WF_vars(FimFinalizacao)
    /\ WF_vars(Junta)

SpecOrquestradorJusto == SpecOrquestrador /\ JusticaOrquestrador

\* the threshold evaluator, the failure predictor and the monitoring
\* iteration on every snapshot, model answer and configuration
InitMonitor ==
    /\ now = 0
    /\ InitCooldownVars
    /\ InitAlertasVars
    /\ InitBackupEstado
    /\ espaco_livre = 2
    /\ is_trained = FALSE
    /\ ENABLE_ML \in BOOLEAN
    /\ InitOrqVars
    /\ InitMonitorEstado
    /\ metrics \in Snapshots
    /\ modelo_proba \in Probabilidades
    /\ preditor_is_trained \in BOOLEAN
    /\ PREDICTION_THRESHOLD \in Limiares
    /\ InitPrioridadeVars
    /\ InitTreinoVars
    /\ InitLacoVars
    /\ InitApiVars

NextMonitor ==
    \/ _monitoring_tick
    \/ get_predicoes
    \/ ChamaVerificarAlertas

SpecMonitor == InitMonitor /\ [][NextMonitor]_vars

\* backup attempts that fail, from the loop and from the API
NextCicloBackup ==
    \/ _backup_loop_ciclo_falho
    \/ create_backup_falho

SpecCicloBackup == InitAlertas /\ [][NextCicloBackup]_vars

\* the two loops that write rows, on an idle host and on a loaded one
InitEscritas ==
    /\ now = 0
    /\ InitCooldownVars
    /\ InitAlertasVars
    /\ InitBackupEstado
    /\ espaco_livre = 2
    /\ is_trained = FALSE
    /\ ENABLE_ML \in BOOLEAN
    /\ InitOrqVars
    /\ InitMonitorEstado
    /\ metrics \in {[cpu |-> 50, memory |-> 50, disk |-> 50, zombie |-> 0],
                    [cpu |-> 91, memory |-> 86, disk |-> 96, zombie |-> 2]}
    /\ modelo_proba \in Probabilidades
    /\ preditor_is_trained \in BOOLEAN
    /\ PREDICTION_THRESHOLD \in Limiares
    /\ InitPrioridadeVars
    /\ InitTreinoVars
    /\ InitLacoVars
    /\ InitApiVars

NextEscritas ==
    \/ _monitoring_tick
    \/ _backup_loop_except

SpecEscritas == InitEscritas /\ [][NextEscritas]_vars

\* the two trainers, from models loaded from disk or not
InitTreino ==
    /\ now = 0
    /\ InitCooldownVars
    /\ InitAlertasVars
    /\ InitBackupEstado
    /\ espaco_livre = 2
    /\ ENABLE_ML = TRUE
    /\ is_trained \in BOOLEAN
    /\ InitOrqVars
    /\ InitMonitorEstado
    /\ metrics = [cpu |-> 50, memory |-> 50, disk |-> 50, zombie |-> 0]
    /\ modelo_proba = 0
    /\ preditor_is_trained \in BOOLEAN
    /\ PREDICTION_THRESHOLD = 700
    /\ InitPrioridadeVars
    /\ treino = ObjetosIniciais(preditor_is_trained, is_trained)
    /\ InitLacoVars
    /\ InitApiVars

NextTreino ==
    \/ ChamaTreinarPreditor
    \/ ChamaTreinarOtimizador
    \/ _ml_training_ciclo

SpecTreino == InitTreino /\ [][NextTreino]_vars

\* the feedback calls of an operator, second after second
NextFeedback ==
    \/ \E id \in IdsFeedback, f \in Feedbacks : aprender_com_feedback(id, f)
    \/ PassaSegundo

SpecFeedback == InitTreino /\ [][NextFeedback]_vars

\* a backup call and the monitoring loop on the one event loop thread
NextLaco ==
    \/ executar_backup_comeca
    \/ executar_backup_avanca
    \/ executar_backup_levanta
    \/ sleep_expira
    \/ _monitoring_loop_retoma

SpecLaco == InitOrquestrador /\ [][NextLaco]_vars

\* calcular_prioridade on every alert, 24-hour count and alert age
InitPrioridade ==
    /\ now = 0
    /\ InitCooldownVars
    /\ InitAlertasVars
    /\ InitBackupVars
    /\ InitOrqVars
    /\ InitMonitorVars
    /\ prioridade \in [chamado : {FALSE}, levantou : {FALSE}, retorno : {0},
                       alerta : AlertasPrioridade, total : TotaisPrioridade,
                       idade : IdadesPrioridade]
    /\ InitTreinoVars
    /\ InitLacoVars
    /\ InitApiVars

NextPrioridade == ChamaCalcularPrioridade

SpecPrioridade == InitPrioridade /\ [][NextPrioridade]_vars

(***************************************************************************)
(* Claims on the cooldown engine.                                          *)
(***************************************************************************)
MesmaSeveridade(h) == \A i \in 1..Len(h) : h[i].severidade = h[1].severidade

SoFalhas(h, n) == \A i \in 1..n : ~h[i].sucesso

\* C6: from no cooldown state, after N failed deliveries of one severity the
\* window of the type is base x 1.5^N; one success after them sets it to
\* max(base, 0.9 x base x 1.5^N), which is never below base.
C6_AdaptiveWidening ==
    \A t \in Tipos :
        LET h == envios[t]
            n == Len(h)
        IN  (n > 0 /\ MesmaSeveridade(h)) =>
            LET base == _get_base_cooldown(h[1].severidade) IN
            /\ t \in DOMAIN adaptive_cooldowns
            /\ SoFalhas(h, n) =>
                   adaptive_cooldowns[t] = Frac(base * Pow(3, n), Pow(2, n))
            /\ (h[n].sucesso /\ SoFalhas(h, n - 1)) =>
                   /\ adaptive_cooldowns[t] =
                          FracMax(FracInt(base),
                                  Frac(9 * base * Pow(3, n - 1), 10 * Pow(2, n - 1)))
                   /\ FracLeq(FracInt(base), adaptive_cooldowns[t])

\* two failures then a success, one severity: the window relaxed from
\* 2.25 x base to 2.025 x base
C6_Witness ==
    \E t \in Tipos :
        LET h == envios[t] IN
        /\ Len(h) = 3 /\ MesmaSeveridade(h)
        /\ ~h[1].sucesso /\ ~h[2].sucesso /\ h[3].sucesso
        /\ adaptive_cooldowns[t] =
               Frac(_get_base_cooldown(h[1].severidade) * 81, 40)

\* C7: the window of a type is never below the base window of the severity
\* of the alert last dispatched for the type.
C7_JanelaNuncaAbaixoDaBase ==
    \A t \in DOMAIN cooldowns :
        FracLeq(FracInt(_get_base_cooldown(cooldowns[t].severidade)),
                adaptive_cooldowns[t])

(***************************************************************************)
(* Claims on the dispatcher.                                               *)
(***************************************************************************)
\* entries i < j of the history are consecutive dispatches of one type
ConsecutivosDoTipo(h, i, j) ==
    /\ i < j
    /\ h[i].tipo = h[j].tipo
    /\ \A k \in (i + 1)..(j - 1) : h[k].tipo # h[i].tipo

\* C1: the time between two consecutive dispatched alerts of one type is at
\* least the cooldown window in force for the first of them (the alerts of a
\* type may differ in severity).
C1_CooldownMonotonicity ==
    \A i, j \in 1..Len(historico_alertas) :
        ConsecutivosDoTipo(historico_alertas, i, j) =>
            historico_alertas[j].timestamp_envio - historico_alertas[i].timestamp_envio
                >= _get_cooldown_periodo(historico_alertas[i].severidade)

\* C8: a submission that enviar answers with status cooldown leaves the
\* cooldown cache, the per-type counts, the history and the alerts table as
\* they were and contacts no channel.
C8_SuprimidoNaoMudaNada ==
    [][(ret'.status = "cooldown" /\ chamada' = chamada /\ now' = now) =>
          UNCHANGED <<cooldown_cache, alert_count, historico_alertas, alerts_db,
                      contatos>>]_vars

\* cpu_alta/media dispatched at 0 and submitted again 300 s later: suppressed,
\* and the window still runs from 0
C8_Witness ==
    /\ ret = [chamador |-> "monitor", status |-> "cooldown"]
    /\ now = 300
    /\ Len(historico_alertas) = 1
    /\ historico_alertas[1].tipo = "cpu_alta"
    /\ historico_alertas[1].severidade = "media"
    /\ cooldown_cache = [x \in {"cpu_alta_media"} |-> 0]
    /\ alert_count = [x \in {"cpu_alta"} |-> 1]

(***************************************************************************)
(* Claims on the backup manager.                                           *)
(***************************************************************************)
\* a step in which an executar_backup call of c begins: it either reaches
\* the await of run_in_executor or ends in the same step
IniciouChamada(c) ==
    /\ backups_iniciados' # backups_iniciados
    /\ \/ tentativa[c].pc = "ocioso" /\ tentativa'[c].pc = "copiando"
       \/ tentativa' = tentativa /\ ret_backup'.chamador = c

\* a step in which an executar_backup call returns or raises
TerminouChamada ==
    \/ backups_iniciados' # backups_iniciados /\ tentativa' = tentativa
    \/ \E c \in ChamadoresBackup :
         tentativa[c].pc # "ocioso" /\ tentativa'[c].pc = "ocioso"

\* C2: every executar_backup call, returning or raising at whichever step,
\* leaves in table backups the one row of its id, and the row tells how the
\* call ended.
C2_ExatamenteUmRegistro ==
    [][TerminouChamada =>
         /\ ret_backup'.id \in DOMAIN backups'
         /\ backups'[ret_backup'.id].sucesso = (ret_backup'.desfecho = "retornou")
      ]_vars

\* C3: the step of executar_backup that holds the free-space check creates
\* no artifact; the call goes on to the copy only with free space of at
\* least twice the estimated size, and otherwise ends in that step with the
\* space error, no artifact created and no row of another backup removed
\* (copy, compression and retention skipped).
C3_SpaceSafety ==
    [][backups_iniciados' # backups_iniciados =>
         /\ artefatos' = artefatos
         /\ \A c \in ChamadoresBackup :
              tentativa'[c] # tentativa[c] =>
                  espaco_livre >= 2 * tentativa'[c].estimado
         /\ tentativa' = tentativa =>
              /\ ret_backup'.desfecho = "erro"
              /\ espaco_livre < 2 * ret_backup'.estimado => ret_backup'.erro = "espaco"
              /\ \A i \in DOMAIN backups \ {ret_backup'.id} :
                   i \in DOMAIN backups' /\ backups'[i] = backups[i]
      ]_vars

\* a call ended with the space error on a disk with 1 MB free for an
\* estimate of 1 MB, while a row older than the retention period is in the
\* table and nothing exists under BACKUP_DIR
C3_Witness ==
    /\ ret_backup.desfecho = "erro"
    /\ ret_backup.erro = "espaco"
    /\ ret_backup.estimado = 1
    /\ espaco_livre = 1
    /\ artefatos = {}
    /\ ret_backup.id \in DOMAIN backups
    /\ ~backups[ret_backup.id].sucesso
    /\ \E i \in DOMAIN backups : backups[i].timestamp < corte(now)

\* C4: the retention sweep of a call that returns removes exactly the rows
\* older than the retention period that are successful, with their
\* artifacts, and leaves every other row and its artifact as they were.
C4_RetencaoExata ==
    [][(ret_backup'.desfecho = "retornou" /\ TerminouChamada) =>
         \A i \in DOMAIN backups \ {ret_backup'.id} :
            IF backups[i].timestamp < corte(now) /\ backups[i].sucesso
            THEN /\ i \notin DOMAIN backups'
                 /\ backups[i].path \notin artefatos'
            ELSE /\ i \in DOMAIN backups'
                 /\ backups'[i] = backups[i]
                 /\ backups[i].path \in artefatos => backups[i].path \in artefatos'
      ]_vars

\* C5: a cycle of the backup loop that begins while table backups holds no
\* successful row runs executar_backup with tipo completo.
C5_SemSucessoEntaoCompleto ==
    [][(IniciouChamada("loop") /\ ComSucesso(backups) = {}) =>
         IF tentativa'["loop"].pc = "copiando"
         THEN tentativa'["loop"].tipo = "completo"
         ELSE ret_backup'.tipo = "completo"
      ]_vars

(***************************************************************************)
(* Claims on the orchestrator.                                             *)
(***************************************************************************)
\* C9: once a termination signal was delivered the running flag is false
\* and every task that is not done has its cancellation requested, and the
\* process has exited only with every task done and no backup copy running.
C9_CooperativeShutdown ==
    /\ sinais > 0 =>
         /\ ~running
         /\ \A t \in Tarefas : tasks[t].pc \notin Finais => tasks[t].must_cancel
    /\ principal = "encerrado" =>
         /\ \A t \in Tarefas : tasks[t].pc \in Finais
         /\ ~copia_thread

\* C10: while no termination signal was delivered, whatever the iterations
\* of the loops raised, no task has a cancellation requested, the running
\* flag is up once start has run, and the process is not on its way out.
C10_FaultIsolation ==
    sinais = 0 =>
        /\ \A t \in Tarefas : ~tasks[t].must_cancel
        /\ principal \in {"start", "gather"}
        /\ principal = "gather" => running

(***************************************************************************)
(* Claims on the failure predictor, the threshold evaluator and the        *)
(* priority score.                                                         *)
(***************************************************************************)
TemPredicaoFalha(lista) ==
    \E i \in 1..Len(lista) : lista[i].tipo = "predicao_falha"

\* C12: a predictor that is not trained answers a prediction request with
\* probability 0.0 and the not-trained marker instead of raising, and the
\* alerts of a monitoring iteration hold no predicao_falha, whatever the
\* snapshot and for every threshold >= 0.
C12_NaoTreinadoNaoAlerta ==
    ~preditor_is_trained =>
        /\ predicao.chamado =>
              /\ predicao.retorno.probabilidade = 0
              /\ predicao.retorno.nivel_risco = "desconhecido"
              /\ predicao.retorno.mensagem = "Modelo nao treinado"
        /\ ~TemPredicaoFalha(tick.submetidos)
        /\ \A limiar \in Limiares :
              ~TemPredicaoFalha(AlertasDoTick(metrics, TRUE, FALSE, modelo_proba,
                                             limiar))

\* with prediction enabled and threshold 0, the predictor without a model
\* was asked and a monitoring iteration ran
C12_Witness ==
    /\ ~preditor_is_trained
    /\ ENABLE_ML
    /\ PREDICTION_THRESHOLD = 0
    /\ predicao.chamado
    /\ predicao.retorno.probabilidade = 0
    /\ tick.desfecho # "nenhum"

\* C13: with prediction enabled and a trained model whose probability for
\* the snapshot is above PREDICTION_THRESHOLD, a monitoring iteration
\* submits an alert of tipo predicao_falha and severidade alta whose details
\* carry that probability and the top features.
C13_PredicaoAcimaDoLimiarAlerta ==
    (/\ tick.desfecho # "nenhum"
     /\ ENABLE_ML
     /\ preditor_is_trained
     /\ modelo_proba > PREDICTION_THRESHOLD) =>
        \E i \in 1..Len(tick.submetidos) :
            /\ tick.submetidos[i].tipo = "predicao_falha"
            /\ tick.submetidos[i].severidade = "alta"
            /\ tick.submetidos[i].detalhes.probabilidade = modelo_proba
            /\ tick.submetidos[i].detalhes.tem_top_features

\* C14: calcular_prioridade returns, and returns a value from 0 to 100, for
\* every severity word, 24-hour count, tipo, valor/threshold pair and alert
\* age.
C14_PriorityBounds ==
    prioridade.chamado =>
        (~prioridade.levantou /\ prioridade.retorno \in 0..100)

\* the positions of the alerts of a tipo in a list
DoTipo(lista, tipo) == {i \in 1..Len(lista) : lista[i].tipo = tipo}

\* the place of a rule in the order cpu, memory, disk, zombie
OrdemDaRegra(tipo) ==
    CASE tipo = "cpu_alta" -> 1
      [] tipo = "memoria_alta" -> 2
      [] tipo = "disco_alto" -> 3
      [] tipo = "processos_zombie" -> 4
      [] OTHER -> 0

\* C15: verificar_alertas gives at most one alert per rule, in the order
\* cpu, memory, disk, zombie; an alert of a resource exists iff its
\* percentage is strictly above the configured threshold, its severidade
\* alta above the rule's upper mark (90 for cpu) and media otherwise; a
\* baixa alert with the count exists iff the zombie count is above 0; cpu 96
\* with all else below threshold gives the one alert cpu_alta, alta.
C15_ThresholdEvaluator ==
    alertas.chamado =>
        LET r == alertas.retorno IN
        /\ \A i \in 1..Len(r) : OrdemDaRegra(r[i].tipo) > 0
        /\ \A i, j \in 1..Len(r) :
              i < j => OrdemDaRegra(r[i].tipo) < OrdemDaRegra(r[j].tipo)
        /\ (DoTipo(r, "cpu_alta") # {}) <=> (metrics.cpu > 80)
        /\ \A i \in DoTipo(r, "cpu_alta") :
              r[i].severidade = IF metrics.cpu > 90 THEN "alta" ELSE "media"
        /\ (DoTipo(r, "memoria_alta") # {}) <=> (metrics.memory > 85)
        /\ \A i \in DoTipo(r, "memoria_alta") :
              r[i].severidade = IF metrics.memory > 95 THEN "alta" ELSE "media"
        /\ (DoTipo(r, "disco_alto") # {}) <=> (metrics.disk > 90)
        /\ \A i \in DoTipo(r, "disco_alto") :
              r[i].severidade = IF metrics.disk > 95 THEN "alta" ELSE "media"
        /\ (DoTipo(r, "processos_zombie") # {}) <=> (metrics.zombie > 0)
        /\ \A i \in DoTipo(r, "processos_zombie") :
              r[i].severidade = "baixa" /\ r[i].valor = metrics.zombie
        /\ (/\ metrics.cpu = 96 /\ metrics.memory <= 85
            /\ metrics.disk <= 90 /\ metrics.zombie = 0) =>
               /\ Len(r) = 1
               /\ r[1].tipo = "cpu_alta" /\ r[1].severidade = "alta"

\* the snapshot of the scenario, evaluated: one alert
C15_Witness ==
    /\ alertas.chamado
    /\ metrics = [cpu |-> 96, memory |-> 50, disk |-> 50, zombie |-> 0]
    /\ Len(alertas.retorno) = 1

(***************************************************************************)
(* Further claims on the dispatcher.                                       *)
(***************************************************************************)
\* C11: two enviar calls with alerts of one tipo (and one severidade) are
\* never both past the cooldown check at the same time: the second, arriving
\* while the first awaits a channel, is not admitted.
C11_SemCorridaNoCooldown ==
    \A c1, c2 \in Chamadores :
        (/\ c1 # c2
         /\ chamada[c1].pc = "enviando"
         /\ chamada[c2].pc = "enviando"
         /\ chamada[c1].alerta.tipo = chamada[c2].alerta.tipo) =>
            chamada[c1].alerta.severidade # chamada[c2].alerta.severidade

\* the canal names of a list of delivery results, in order
CanaisDe(resultados) == [i \in 1..Len(resultados) |-> resultados[i].canal]

\* the candidate channels of the five severity words
C16_Mapa(severidade) ==
    CASE severidade = "critica" -> <<"telegram", "email", "slack">>
      [] severidade = "alta" -> <<"telegram", "email">>
      [] severidade \in {"media", "baixa"} -> <<"email">>
      [] severidade = "info" -> << >>

\* C16: the channels an admitted alert is delivered on are the candidate
\* channels of its severidade under the fixed map (critica: telegram, email,
\* slack; alta: telegram, email; media, baixa: email; info: none) that are
\* active, the same for every alert of one severidade; no channel that is
\* not active is contacted, and an info alert is sent on no channel.
C16_CanaisPorSeveridade ==
    /\ \A i \in 1..Len(historico_alertas) :
          LET h == historico_alertas[i] IN
          /\ h.severidade \in {"critica", "alta", "media", "baixa", "info"} =>
                CanaisDe(h.resultados) = SeqFiltra(C16_Mapa(h.severidade), canal_ativo)
          /\ \A j \in 1..Len(historico_alertas) :
                historico_alertas[j].severidade = h.severidade =>
                    CanaisDe(historico_alertas[j].resultados) = CanaisDe(h.resultados)
          /\ \A k \in 1..Len(h.resultados) : canal_ativo[h.resultados[k].canal]
    /\ \A c \in Chamadores :
          chamada[c].pc = "enviando" =>
              /\ chamada[c].alerta.severidade # "info"
              /\ \A k \in 1..Len(chamada[c].pendentes) :
                    canal_ativo[chamada[c].pendentes[k]]

\* with every channel active, a critica alert went to the three channels
\* and an info alert to none
C16_Witness ==
    /\ canal_ativo = [c \in Canais |-> TRUE]
    /\ Len(historico_alertas) = 2
    /\ \E i, j \in 1..2 :
          /\ historico_alertas[i].severidade = "critica"
          /\ Len(historico_alertas[i].resultados) = 3
          /\ historico_alertas[j].severidade = "info"
          /\ historico_alertas[j].resultados = << >>

RECURSIVE TotalDeResultados(_)
TotalDeResultados(h) ==
    IF h = << >> THEN 0 ELSE Len(Head(h).resultados) + TotalDeResultados(Tail(h))

\* the channels called so far by the calls in flight
ContatosEmVoo ==
    LET emVoo == {c \in Chamadores : chamada[c].pc = "enviando"} IN
    IF emVoo = {} THEN 0
    ELSE IF Cardinality(emVoo) = 1
         THEN LET c == CHOOSE x \in emVoo : TRUE IN Len(chamada[c].resultados) + 1
         ELSE Len(chamada["monitor"].resultados) + Len(chamada["backup"].resultados) + 2

\* C17: the delivery results of a dispatched alert are one entry per active
\* candidate channel, in the order of the attempts, whatever the earlier
\* channels answered (sucesso false, or an exception); no channel is called
\* a second time; and a row of table alerts holds the list of a dispatched
\* alert as the history holds it.
C17_UmaTentativaPorCanal ==
    /\ \A i \in 1..Len(historico_alertas) :
          CanaisDe(historico_alertas[i].resultados) =
              _determinar_canais(historico_alertas[i].severidade, canal_ativo)
    /\ contatos = TotalDeResultados(historico_alertas) + ContatosEmVoo
    /\ \A id \in DOMAIN alerts_db :
          \E i \in 1..Len(historico_alertas) :
              /\ historico_alertas[i].tipo = alerts_db[id].tipo
              /\ historico_alertas[i].severidade = alerts_db[id].severidade
              /\ historico_alertas[i].resultados = alerts_db[id].resultados

\* a critica alert whose first channel answered sucesso false and whose second
\* channel raised was still sent on the third, and its row holds the three
\* results
C17_Witness ==
    \E i \in 1..Len(historico_alertas) :
        LET r == historico_alertas[i].resultados IN
        /\ historico_alertas[i].severidade = "critica"
        /\ Len(r) = 3
        /\ ~r[1].sucesso /\ ~r[1].erro
        /\ ~r[2].sucesso /\ r[2].erro
        /\ r[3].sucesso
        /\ contatos = 3
        /\ \E id \in DOMAIN alerts_db : alerts_db[id].resultados = r

AlgumaFalha(resultados) == \E k \in 1..Len(resultados) : ~resultados[k].sucesso

\* C18: after an alert is dispatched with a failed channel delivery, the
\* next alert of its tipo and severidade is dispatched no sooner than 1.5
\* times the base window of the severidade later.
C18_JanelaAlargadaNaFalha ==
    \A i, j \in 1..Len(historico_alertas) :
        (/\ ConsecutivosDoTipo(historico_alertas, i, j)
         /\ historico_alertas[i].severidade = historico_alertas[j].severidade
         /\ AlgumaFalha(historico_alertas[i].resultados)) =>
            2 * (historico_alertas[j].timestamp_envio
                    - historico_alertas[i].timestamp_envio)
                >= 3 * _get_base_cooldown(historico_alertas[i].severidade)

\* the severity word an alert's word stands for: the same word in lower
\* case, media for a word outside the maps
C19_Canonica(severidade) ==
    CASE severidade = "ALTA" -> "alta"
      [] severidade = "urgente" -> "media"
      [] OTHER -> severidade

\* C19: against the cooldown state at hand, an alert and the same alert with
\* its severity word in lower case (media for an unknown word) get the same
\* admit/suppress decision, the same channels, the same base window and the
\* same severity weight.
C19_SeveridadeSemCaixa ==
    \A a \in AlertasDespacho :
        LET b == [a EXCEPT !.severidade = C19_Canonica(a.severidade)] IN
        /\ _em_cooldown(cooldown_cache, a, now) = _em_cooldown(cooldown_cache, b, now)
        /\ _determinar_canais(a.severidade, canal_ativo) =
               _determinar_canais(b.severidade, canal_ativo)
        /\ _get_cooldown_periodo(a.severidade) = _get_cooldown_periodo(b.severidade)
        /\ _get_base_cooldown(a.severidade) = _get_base_cooldown(b.severidade)
        /\ severidade_scores(a.severidade) = severidade_scores(b.severidade)

(***************************************************************************)
(* Further claims on the backup manager.                                   *)
(***************************************************************************)
\* C20: a row of table backups, once written, keeps every field for as
\* long as it exists, whatever the attempt that wrote it and the attempts
\* that follow do (a row with sucesso true never becomes a row with sucesso
\* false); a row disappears only in the retention sweep of a call that
\* returns, and only when it is older than the retention period.
C20_RegistroImutavel ==
    [][\A i \in DOMAIN backups :
          IF i \in DOMAIN backups'
          THEN backups'[i] = backups[i]
          ELSE /\ TerminouChamada
               /\ ret_backup'.desfecho = "retornou"
               /\ backups[i].timestamp < corte(now)
      ]_vars

\* C21: a treinar call of the failure predictor or of the backup optimizer
\* that ends with insufficient data or with an error leaves the models,
\* the scalers and the trained flags of both as they were before the call.
C21_TreinoSoTrocaNoSucesso ==
    [][(/\ treino'.execucoes # treino.execucoes
        /\ treino'.ultimo.desfecho \in {"insufficient_data", "error"})
       => /\ treino'.preditor = treino.preditor
          /\ treino'.otimizador = treino.otimizador
          /\ is_trained' = is_trained
          /\ preditor_is_trained' = preditor_is_trained
      ]_vars

\* C22: when the store refuses a row a loop writes, the counters in memory
\* still advance: a refused alert row is counted in total_alerts together
\* with the alerts submitted before it, and with a refused metrics row the
\* live percentages are those of the snapshot.
C22_ContadoresAvancam ==
    [][(escrita'.n # escrita.n /\ ~escrita'.ok)
       => IF escrita'.tabela = "alerts"
          THEN total_alerts' = total_alerts + escrita'.submetidos
          ELSE current' = [cpu |-> metrics.cpu, memory |-> metrics.memory,
                           disk |-> metrics.disk]
      ]_vars

\* C23: after every backup attempt that fails, a row of table backups with
\* sucesso false stands for the attempt, or a backup_erro alert for it has
\* been admitted by the dispatcher (not suppressed by the cooldown).
C23_SemFalhaSilenciosa ==
    [][backups_iniciados' # backups_iniciados
       => \/ /\ now \in DOMAIN backups'
             /\ ~backups'[now].sucesso
          \/ /\ Len(historico_alertas') = Len(historico_alertas) + 1
             /\ historico_alertas'[Len(historico_alertas')].tipo = "backup_erro"
      ]_vars

(***************************************************************************)
(* Claims on the loops of the orchestrator.                                *)
(***************************************************************************)
\* the backup task counted a failure in this step
FalhouCicloBackup ==
    /\ failures' = failures + 1
    /\ tasks'["backup"] # tasks["backup"]

\* C24: a cycle of _backup_loop that fails (before the copy, insufficient
\* space included, or after it) leaves nothing of the attempt running and
\* submits a backup_erro alert of severity alta; and while the system is
\* running the loop begins another cycle after it.
C24_FalhaAlertaERetoma ==
    /\ [][FalhouCicloBackup
          => /\ tasks'["backup"].enviou = AlertaBackupErro
             /\ ~copia_thread']_vars
    /\ \A n \in 1..(MaxBackups + MaxFalhas + 1) :
          (tasks["backup"].enviou = AlertaBackupErro /\ tasks["backup"].iteracao = n)
             ~> (tasks["backup"].iteracao > n \/ ~running)

\* C24 witness: a cycle failed, its alert was submitted, the task slept
\* and is again at the head of its loop with the system running.
C24_Witness ==
    /\ tasks["backup"].pc = "topo"
    /\ tasks["backup"].enviou = AlertaBackupErro
    /\ tasks["backup"].iteracao = 1
    /\ failures > 0
    /\ running

\* the iteration of task t raised in this step: the task is in the sleep
\* of its except branch, or ended with the exception
IteracaoLevantou(t) ==
    /\ sinais' = sinais
    /\ tasks[t].pc \notin {"recuando", "excecao"}
    /\ tasks'[t].pc \in {"recuando", "excecao"}

\* C25: when an iteration of the monitoring, backup or retraining loop
\* raises, the loop counts exactly one failure and goes into the sleep of
\* its except branch, from which it resumes.
C25_FalhaContadaERecuo ==
    [][\A t \in {"monitoring", "backup", "ml"} :
         IteracaoLevantou(t)
         => /\ failures' = failures + 1
            /\ tasks'[t].pc = "recuando"
            /\ tasks'[t].espera > 0
      ]_vars

\* the instants at which the dispatcher's window is probed: the first
\* dispatch is at 0, the others lie on each side of the windows' ends
C26_Instantes == {0, 59, 60, 299, 300, 1799, 1800}

\* the cooldown caches of a dispatcher that never dispatched the tipo: the
\* empty one, and one holding every key of another tipo
C26_CachesSem(tipo) ==
    LET outras == {chave_cooldown([a EXCEPT !.tipo = "backup_erro"]) :
                      a \in AlertasDespacho}
    IN  IF tipo = "backup_erro" THEN {DictVazio}
        ELSE {DictVazio, [k \in outras |-> 0]}

\* C26: an alert whose tipo was never dispatched finds no cooldown state
\* and is admitted, whatever its severity, by the cooldown engine and by
\* the dispatcher; after this first dispatch the engine's window of the
\* tipo is the base window of that alert's severity (times 1.5 when the
\* delivery failed), and the dispatcher suppresses the same alert exactly
\* during the window of its severity.
C26_PrimeiroSempreAdmitido ==
    /\ \A a \in AlertasCooldown :
          envios[a.tipo] = << >> =>
             /\ a.tipo \notin DOMAIN cooldowns
             /\ a.tipo \notin DOMAIN adaptive_cooldowns
             /\ should_alert(cooldowns, adaptive_cooldowns, a, now) = <<TRUE, 0>>
    /\ \A t \in Tipos :
          Len(envios[t]) = 1 =>
             LET base == _get_base_cooldown(envios[t][1].severidade) IN
             /\ t \in DOMAIN adaptive_cooldowns
             /\ adaptive_cooldowns[t] =
                    IF envios[t][1].sucesso THEN FracInt(base) ELSE Frac(3 * base, 2)
             /\ \A a \in AlertasCooldown :
                   a.tipo = t =>
                      (should_alert(cooldowns, adaptive_cooldowns, a, now)[1]
                          <=> ~FracLt(FracInt(now - cooldowns[t].timestamp),
                                      adaptive_cooldowns[t]))
    /\ \A a \in AlertasDespacho :
          envios[a.tipo] = << >> =>
             \A cache \in C26_CachesSem(a.tipo) :
                /\ \A t \in C26_Instantes : ~_em_cooldown(cache, a, t)
                /\ \A t \in C26_Instantes :
                      _em_cooldown(CacheAposEnvio(cache, a, 0), a, t)
                         <=> t < _get_cooldown_periodo(C19_Canonica(a.severidade))

\* one alert of the tipo was dispatched, its delivery failed, and a query
\* made inside the widened window was refused
C26_Witness ==
    /\ Len(envios["cpu_alta"]) = 1
    /\ ~envios["cpu_alta"][1].sucesso
    /\ decisao.alerta.tipo = "cpu_alta"
    /\ ~decisao.resposta[1]
    /\ now > 0

\* C27: a slow backup does not stall monitoring: in every phase of an
\* executar_backup call, when the sleep of _monitoring_loop has expired the
\* loop can run its iteration without waiting for the phase to end.
C27_BackupLentoNaoTrava ==
    \A i \in 1..Len(FasesBackup) :
        (laco.fase = FasesBackup[i] /\ laco.monitor = "pronto")
           => ENABLED _monitoring_loop_retoma

\* C28: a cycle of the backup loop that asks sugerir_estrategia while the
\* last successful backup is more than 7 days old runs executar_backup
\* with tipo completo, the model trained or not, whatever the cluster and
\* the weekday.
C28_MaisDe7DiasEntaoCompleto ==
    [][(/\ IniciouChamada("loop")
        /\ ENABLE_ML
        /\ dias_desde_ultimo_maior_7(backups, now)) =>
         IF tentativa'["loop"].pc = "copiando"
         THEN tentativa'["loop"].tipo = "completo"
         ELSE ret_backup'.tipo = "completo"
      ]_vars

\* a Wednesday, the model trained, the last successful backup 30 days old:
\* the cycle's backup is a full one
C28_Witness ==
    /\ ENABLE_ML /\ is_trained
    /\ weekday(now) # 0
    /\ tentativa["loop"].pc = "copiando"
    /\ tentativa["loop"].id = now
    /\ tentativa["loop"].tipo = "completo"
    /\ dias_desde_ultimo_maior_7(backups, now)

\* C29: every iteration of the monitoring loop collects the snapshot,
\* evaluates the thresholds, predicts failure when ML is enabled, submits
\* each resulting alert and then saves the metrics, in that order, and
\* adds exactly one row to table metrics.
C29_OrdemDoTick ==
    [][(failures' # failures \/ escrita'.n # escrita.n) =>
         /\ tick'.submetidos =
                AlertasDoTick(metrics, ENABLE_ML, preditor_is_trained,
                              modelo_proba, PREDICTION_THRESHOLD)
         /\ tick'.passos =
                Append(PassosAteEnviar(ENABLE_ML, Len(tick'.submetidos)), "salvar")
         /\ metrics_db' = Append(metrics_db, AtualizaCurrent(metrics))
      ]_vars

\* C30: once shutdown has run, no monitoring, backup or retraining loop
\* starts a new iteration.
C30_SemIteracaoAposShutdown ==
    [][status = "stopped" =>
         \A t \in {"monitoring", "backup", "ml"} :
            tasks'[t].iteracao = tasks[t].iteracao
      ]_vars

\* shutdown ran on a signal while the monitoring and backup loops, each
\* past its first iteration, were waiting; both ended cancelled
C30_Witness ==
    /\ status = "stopped" /\ ~running
    /\ sinais = 1
    /\ tasks["monitoring"].iteracao = 1
    /\ tasks["monitoring"].pc = "cancelada"
    /\ tasks["backup"].iteracao = 1
    /\ tasks["backup"].pc = "cancelada"

C32_RegraDeRecurso ==
    [][(/\ IniciouChamada("loop")
        /\ ENABLE_ML /\ ~is_trained
        /\ ComSucesso(backups) # {}
        /\ ~dias_desde_ultimo_maior_7(backups, now)) =>
         LET tipo == IF tentativa'["loop"].pc = "copiando"
                     THEN tentativa'["loop"].tipo
                     ELSE ret_backup'.tipo
         IN  tipo = IF weekday(now) = 0 THEN "completo" ELSE "incremental"
      ]_vars

\* a Monday, the model not trained, a successful backup one second old: the
\* cycle's backup is a full one
C32_Witness ==
    /\ ENABLE_ML /\ ~is_trained
    /\ weekday(now) = 0
    /\ tentativa["loop"].pc = "copiando"
    /\ tentativa["loop"].id = now
    /\ tentativa["loop"].tipo = "completo"
    /\ ComSucesso(backups) # {}
    /\ ~dias_desde_ultimo_maior_7(backups, now)

\* C33: an iteration of the retraining loop retrains the models iff the
\* count of the metric rows of the last day was read and is at least 100;
\* when the count cannot be read nothing is retrained and the loop sleeps
\* until its next iteration.
C33_RetreinaComCemNovos ==
    [][treino'.ciclo.n # treino.ciclo.n =>
         /\ treino'.ciclo.retreinou <=>
               (treino'.ciclo.leitura_ok /\ treino'.ciclo.novos >= 100)
         /\ ~treino'.ciclo.leitura_ok =>
               /\ treino'.execucoes = treino.execucoes
               /\ treino'.ciclo.desfecho = "dormiu"
      ]_vars

\* C34: every feedback call leaves the row of the feedback in table
\* backup_feedback, and it retrains the sizing model iff utilidade or
\* performance, 3 when absent, is below 2.
C34_FeedbackRegistradoERetreino ==
    [][(ret_api'.n # ret_api.n /\ ret_api'.op = "feedback") =>
         /\ Cardinality(DOMAIN backup_feedback')
               = Cardinality(DOMAIN backup_feedback) + 1
         /\ \A id \in IdsFeedback :
               (<<id, now>> \in DOMAIN backup_feedback'
                   /\ <<id, now>> \notin DOMAIN backup_feedback) =>
                  (ret_api'.retreinou
                      <=> (backup_feedback'[<<id, now>>].utilidade < 2
                              \/ backup_feedback'[<<id, now>>].performance < 2))
      ]_vars

\* C35: two backup attempts of different callers, the scheduled one and the
\* one started through the API, have distinct ids and distinct artifact
\* directories, whether they are in progress together or one follows the
\* other, and the later one leaves the row of the earlier one as it was.
C35_IdsDistintos ==
    /\ [](\A c, d \in ChamadoresBackup :
            (c # d /\ tentativa[c].pc # "ocioso" /\ tentativa[d].pc # "ocioso") =>
               /\ tentativa[c].id # tentativa[d].id
               /\ backup_path(tentativa[c].id) # backup_path(tentativa[d].id))
    /\ [][(TerminouChamada /\ ret_backup.chamador # "nenhum"
                           /\ ret_backup'.chamador # ret_backup.chamador) =>
            /\ ret_backup'.id # ret_backup.id
            /\ (ret_backup.id \in DOMAIN backups /\ ret_backup.id \in DOMAIN backups') =>
                   backups'[ret_backup.id] = backups[ret_backup.id]]_vars

(***************************************************************************)
(* A sustained fault: alerts of one type are submitted for as long as the  *)
(* program runs, to the dispatcher (canais.py) by the monitoring loop and  *)
(* to the cooldown engine (priorizacao.py) by a caller that asks           *)
(* should_alert and, when admitted, delivers and calls registrar_envio.    *)
(* The dispatcher runs under the configuration of config.py 44-46.         *)
(***************************************************************************)
MaxTempoSustentado == 150  \* last instant of the sustained fault's clock

\* the instants at which the submissions are made: inside the first window,
\* at its end, and after the window that one failed delivery has widened
InstantesSustentados == {0, 30, 60, MaxTempoSustentado}

AlertaSustentado == [tipo |-> "cpu_alta", severidade |-> "critica"]

PassaTempoSustentado ==
    /\ \E t \in InstantesSustentados :
         /\ t > now
         /\ \A u \in InstantesSustentados : u > now => t <= u
         /\ now' = t
    /\ UNCHANGED <<varsCooldown, varsMonitor, varsPrioridade, varsTreino,
                   varsLaco, varsApi, varsAlertas, varsBackup, varsOrq>>

\* the caller of the engine was admitted: the delivery and registrar_envio
EnvioAdmitido(alerta) ==
    /\ should_alert(cooldowns, adaptive_cooldowns, alerta, now)[1]
    /\ \E sucesso \in BOOLEAN : registrar_envio(alerta, sucesso)

NextSustentado ==
    \/ EnviarInicio("monitor", AlertaSustentado)
    \/ EnviarCanal("monitor")
    \/ EnvioAdmitido(AlertaSustentado)
    \/ PassaTempoSustentado

\* the submissions go on, the awaited channels answer, and time advances
JustoSustentado ==
    /\ WF_vars(EnviarInicio("monitor", AlertaSustentado))
    /\ WF_vars(EnviarCanal("monitor"))
    /\ WF_vars(EnvioAdmitido(AlertaSustentado))
    /\ WF_vars(PassaTempoSustentado)

SpecSustentado == InitCooldown /\ [][NextSustentado]_vars /\ JustoSustentado

\* the failed deliveries among the recorded ones of a type
Falhados(tipo) ==
    Cardinality({i \in 1..Len(envios[tipo]) : ~envios[tipo][i].sucesso})

\* the window of a type has passed at the last instant of the clock
JanelaCabe(tipo) ==
    LET janela == adaptive_cooldowns[tipo] IN
    cooldowns[tipo].timestamp * janela.d + janela.n <= MaxTempoSustentado * janela.d

\* C36: while alerts of a type keep being submitted and time advances, a
\* dispatch of the type is followed by another admission of the type, in the
\* dispatcher and in the cooldown engine; a submission that the dispatcher
\* suppresses leaves its window where it was; and the adaptive window after N
\* failed deliveries is at most base x 1.5^N.
C36_SemInanicao ==
    /\ ((/\ Len(historico_alertas) = 1
          /\ historico_alertas[1].timestamp_envio
                + _get_cooldown_periodo(AlertaSustentado.severidade)
                  <= MaxTempoSustentado)
           ~> (Len(historico_alertas) = 2))
    /\ [](\A n \in 1..(MaxEnvios - 1) :
            (Len(envios[AlertaSustentado.tipo]) = n /\ JanelaCabe(AlertaSustentado.tipo))
              => <>(Len(envios[AlertaSustentado.tipo]) > n))
    /\ [][(ret'.status = "cooldown" /\ chamada' = chamada /\ now' = now)
               => cooldown_cache' = cooldown_cache]_vars
    /\ [](\A tipo \in DOMAIN adaptive_cooldowns :
            FracLeq(adaptive_cooldowns[tipo],
                    FracMul(FracInt(_get_base_cooldown(AlertaSustentado.severidade)),
                            Pow(3, Falhados(tipo)), Pow(2, Falhados(tipo)))))

\* the alert was dispatched at 0 and again at 60, the submission between
\* them suppressed, and the engine admitted a third delivery after a failed
\* one
C36_Witness ==
    /\ Len(historico_alertas) = 2
    /\ historico_alertas[1].timestamp_envio = 0
    /\ historico_alertas[2].timestamp_envio = 60
    /\ ret.status = "cooldown"
    /\ Len(envios["cpu_alta"]) = 3
    /\ ~envios["cpu_alta"][2].sucesso

(***************************************************************************)
(* The dispatcher with no channel to send on: the configurations of        *)
(* ConfigsCanais and the one of an installation without SMTP_USER, bot     *)
(* token and webhook, in which esta_ativo() is false for every channel     *)
(* (canais.py 248, 436, 520).                                              *)
(***************************************************************************)
SemCanalAtivo == [c \in Canais |-> FALSE]

InitCanaisInativos ==
    /\ now = 0
    /\ InitCooldownVars
    /\ InitAlertasEstado
    /\ canal_ativo \in ConfigsCanais \cup {SemCanalAtivo}
    /\ InitBackupVars
    /\ InitOrqVars
    /\ InitMonitorVars
    /\ InitPrioridadeVars
    /\ InitTreinoVars
    /\ InitLacoVars
    /\ InitApiVars

NextCanaisInativos ==
    \/ \E a \in AlertasCanais : EnviarInicio("monitor", a)
    \/ EnviarCanal("monitor")
    \/ PassaTempoAlertas

SpecCanaisInativos == InitCanaisInativos /\ [][NextCanaisInativos]_vars

\* a step in which enviar admits an alert and finishes without an await:
\* the alert had no active candidate channel
AdmitidoSemCanal ==
    /\ chamada["monitor"].pc = "ocioso"
    /\ Len(historico_alertas') = Len(historico_alertas) + 1

OrdemSeveridade(severidade) ==
    CASE severidade = "critica" -> 5
      [] severidade = "alta" -> 4
      [] severidade = "media" -> 3
      [] severidade = "baixa" -> 2
      [] severidade = "info" -> 1
      [] OTHER -> 0

\* C39: a calcular_prioridade call returns a score that is strictly below
\* the score of the same alert under every higher severity, and at most the
\* score of the same alert under every greater 24-hour count of its tipo.
C39_OrdemDaPrioridade ==
    (prioridade.chamado /\ OrdemSeveridade(prioridade.alerta.severidade) > 0) =>
        /\ ~prioridade.levantou
        /\ \A s \in SeveridadesPrioridade :
              OrdemSeveridade(s) > OrdemSeveridade(prioridade.alerta.severidade) =>
                  calcular_prioridade([prioridade.alerta EXCEPT !.severidade = s],
                                      prioridade.total, prioridade.idade)
                      > prioridade.retorno
        /\ \A n \in TotaisPrioridade :
              n >= prioridade.total =>
                  calcular_prioridade(prioridade.alerta, n, prioridade.idade)
                      >= prioridade.retorno
(***************************************************************************)
(* Claims on the counters of the orchestrator.                             *)
(***************************************************************************)
\* a step in which the backup task gets the answer of executar_backup
RespostaDoBackup ==
    tasks["backup"].resultado = "nenhum" /\ tasks'["backup"].resultado # "nenhum"

\* C38: no step lowers total_alerts, total_backups or failures; a scheduled
\* backup that returned adds one to total_backups, one that raised adds one
\* to failures and nothing to total_backups, and no other step changes
\* total_backups or adds more than one to failures.
C38_ContadoresMonotonos ==
    [][/\ total_alerts' >= total_alerts
       /\ total_backups' >= total_backups
       /\ failures' \in {failures, failures + 1}
       /\ (RespostaDoBackup /\ tasks'["backup"].resultado = "sucesso") =>
              total_backups' = total_backups + 1
       /\ (RespostaDoBackup /\ tasks'["backup"].resultado = "falha") =>
              (total_backups' = total_backups /\ failures' = failures + 1)
       /\ ~RespostaDoBackup => total_backups' = total_backups]_vars

\* one scheduled backup returned and the next one raised
C38_Witness ==
    /\ tasks["backup"].resultado = "falha"
    /\ tasks["backup"].iteracao = 2
    /\ total_backups = 1
    /\ failures = 1
(***************************************************************************)
(* The restore of a backup, among the backups of the loop and of the API.  *)
(***************************************************************************)
NextRestauracao ==
    \/ \E cluster \in Clusters : BackupDoLoop(cluster)
    \/ \E tipo \in TiposAPI : IniciarBackup("api", tipo)
    \/ \E c \in ChamadoresBackup : CopiaSync(c)
    \/ \E c \in ChamadoresBackup : ConcluirBackup(c)
    \/ PassaTempoBackup
    \/ \E id \in DOMAIN backups \cup {IdDesconhecido} : restaurar_backup(id)

SpecRestauracao == InitCooldown /\ [][NextRestauracao]_vars

\* C40: a restaurar_backup call leaves table backups as it was; for an id
\* with no row, or with a row that is not successful, it raises BackupError
\* and writes nothing under the destination; what it writes is of a backup
\* whose row is successful.
C40_SoRestauraComSucesso ==
    [][(ret_api'.n # ret_api.n /\ ret_api'.op = "restaurar") =>
          LET id == destino'.pedido IN
          /\ backups' = backups
          /\ tabela_backups' = tabela_backups
          /\ (id \notin DOMAIN backups \/ ~backups[id].sucesso) =>
                (ret_api'.desfecho = "BackupError"
                   /\ destino'.escrito = destino.escrito)
          /\ destino'.escrito # destino.escrito =>
                (id \in DOMAIN backups /\ backups[id].sucesso)]_vars
====
